---- MODULE Spec2Model ----
(***************************************************************************)
(* NotaryQuickCopy: the node/tree store (models.py), its JSON codec and    *)
(* legacy migration, the atomic save (storage.py), the explorer's tree     *)
(* operations and whole-store import (ui_explorer.py), the file view's     *)
(* copy sections and favorite toggle (ui_file_view.py), and the bundle     *)
(* transfer functions (bundle_io.py).                                      *)
(*                                                                         *)
(* Representation.  A node ID (a uuid4 string) is a number of Ids; None    *)
(* as an ID is NoId.  new_id() returns the smallest ID referenced nowhere  *)
(* in the state (uuid4 never repeats; an ID nothing refers to is as good   *)
(* as new).  A Python dict is a function; a missing key is a name outside  *)
(* its DOMAIN.  None as a content, and the empty dict and the empty list,  *)
(* are <<>>; Optional[FileContent] is <<>> or <<fc>>.  A name is a         *)
(* sequence of characters, so that str.strip() is computed.  db.nodes is   *)
(* a function on the IDs it holds: dict equality ignores insertion order.  *)
(***************************************************************************)
EXTENDS Integers, Sequences, FiniteSets, TLC

\* ---------------------------------------------------------------- bounds
MaxIds == 8
MaxSteps == 4
\* The depth of recursion the interpreter allows (sys.getrecursionlimit).
MaxDepth == 6
Ids == 1..MaxIds

\* ------------------------------------------------------------ data model
NoId == 0
None == <<>>
EmptyDict == <<>>
NotDict == [notdict |-> TRUE]

IsDict(v) == "notdict" \notin DOMAIN v

Get(d, k, default) == IF k \in DOMAIN d THEN d[k] ELSE default

OrElse(v, default) == IF v = <<>> THEN default ELSE v

Range(s) == {s[i] : i \in DOMAIN s}

Put(f, k, v) == [i \in (DOMAIN f) \cup {k} |-> IF i = k THEN v ELSE f[i]]

Pop(f, k) == [i \in (DOMAIN f) \ {k} |-> f[i]]

Without(s, x) == SelectSeq(s, LAMBDA c : c # x)

QuickCopyName == <<"Q", "u", "i", "c", "k", "C", "o", "p", "y">>
FavoritesName == <<"F", "a", "v", "o", "r", "i", "t", "e", "s">>
UntitledName == <<"U", "n", "t", "i", "t", "l", "e", "d">>

blank_rich_doc == [text |-> "", tags |-> <<>>]

FileContent(read_doc, copy_docs) == [read_doc |-> read_doc, copy_docs |-> copy_docs]

BlankFileContent == FileContent(blank_rich_doc, <<blank_rich_doc>>)

Node(id, type, name, children, content, target_id) ==
    [id |-> id, type |-> type, name |-> name, children |-> children,
     content |-> content, target_id |-> target_id]

Database(qc, fav, nodes_) ==
    [quickcopy_root_id |-> qc, favorites_root_id |-> fav, nodes |-> nodes_]

\* Every ID a store mentions: keys, node ids, children, targets, roots.
IdsOfDb(db) ==
    (DOMAIN db.nodes) \cup {db.quickcopy_root_id, db.favorites_root_id}
    \cup UNION {Range(db.nodes[i].children) \cup {db.nodes[i].id, db.nodes[i].target_id}
                : i \in DOMAIN db.nodes}

new_id(used) == CHOOSE i \in Ids \ used : \A j \in Ids \ used : i <= j

blank_database(used) ==
    LET f == new_id(used)
        q == new_id(used \cup {f})
    IN Database(q, f,
                (f :> Node(f, "folder", FavoritesName, <<>>, None, NoId))
                @@ (q :> Node(q, "folder", QuickCopyName, <<>>, None, NoId)))

\* _now_iso(): the one instant a session's saves are stamped with.
now_iso == <<"n", "o", "w">>

\* ------------------------------------------------------------ serialize
\* A serializer that writes no shortcut target.
NodeToDictNoTarget(n) ==
    [id |-> n.id, type |-> n.type, name |-> n.name, children |-> n.children,
     content |-> IF n.type = "file" /\ n.content # None
                 THEN [read_doc |-> n.content[1].read_doc,
                       copy_docs |-> n.content[1].copy_docs]
                 ELSE None,
     target_id |-> NoId]

NodeToDict(n) ==
    [id |-> n.id, type |-> n.type, name |-> n.name, children |-> n.children,
     content |-> IF n.type = "file" /\ n.content # None
                 THEN [read_doc |-> n.content[1].read_doc,
                       copy_docs |-> n.content[1].copy_docs]
                 ELSE None,
     target_id |-> n.target_id]

RECURSIVE SetToSeq(_)
SetToSeq(S) ==
    IF S = {} THEN <<>>
    ELSE LET m == CHOOSE i \in S : \A j \in S : i <= j
         IN <<m>> \o SetToSeq(S \ {m})

\* "nodes" is a JSON object: a sequence of key/value entries (the order in
\* which json.load yields them).
db_to_dict(db) ==
    [quickcopy_root_id |-> db.quickcopy_root_id,
     favorites_root_id |-> db.favorites_root_id,
     nodes |-> [k \in DOMAIN SetToSeq(DOMAIN db.nodes) |->
                  [key |-> SetToSeq(DOMAIN db.nodes)[k],
                   val |-> NodeToDict(db.nodes[SetToSeq(DOMAIN db.nodes)[k]])]]]

\* ---------------------------------------------------------- deserialize
\* An upgrade that keeps nothing of the old content.
upgrade_to_blank(content_raw) == BlankFileContent

upgrade_legacy_content(content_raw) ==
    IF ~IsDict(content_raw) THEN BlankFileContent
    ELSE IF "read_doc" \in DOMAIN content_raw \/ "copy_docs" \in DOMAIN content_raw
    THEN FileContent(OrElse(Get(content_raw, "read_doc", None), blank_rich_doc),
                     OrElse(Get(content_raw, "copy_docs", None), <<blank_rich_doc>>))
    ELSE LET read_text == Get(content_raw, "read_text", "")
             copy_blocks == OrElse(Get(content_raw, "copy_blocks", <<>>), <<"">>)
         IN FileContent([text |-> read_text, tags |-> <<>>],
                        [i \in DOMAIN copy_blocks |-> [text |-> copy_blocks[i], tags |-> <<>>]])

ParseNode(node_id, d) ==
    LET ntype == Get(d, "type", "folder")
    IN Node(Get(d, "id", node_id),
            IF ntype \in {"folder", "file", "shortcut"} THEN ntype ELSE "folder",
            Get(d, "name", UntitledName),
            Get(d, "children", <<>>),
            IF ntype = "file"
            THEN <<upgrade_legacy_content(OrElse(Get(d, "content", None), EmptyDict))>>
            ELSE None,
            Get(d, "target_id", NoId))

RECURSIVE ParseNodes(_, _)
ParseNodes(entries, acc) ==
    IF entries = <<>> THEN acc
    ELSE LET e == Head(entries)
         IN IF ~IsDict(e.val) THEN ParseNodes(Tail(entries), acc)
            ELSE LET n == ParseNode(e.key, e.val)
                 IN ParseNodes(Tail(entries), Put(acc, n.id, n))

IsShortcutTo(db, cid, file_id) ==
    /\ cid \in DOMAIN db.nodes
    /\ db.nodes[cid].type = "shortcut"
    /\ db.nodes[cid].target_id = file_id

LeaveChildren(nodes_, parent, cid) == nodes_

AppendChild(nodes_, parent, cid) ==
    [nodes_ EXCEPT ![parent].children = Append(@, cid)]

ensure_favorite_shortcut(db, file_id, used) ==
    LET fr == db.favorites_root_id
    IN IF fr \notin DOMAIN db.nodes \/ db.nodes[fr].type # "folder" THEN db
       ELSE IF \E k \in DOMAIN db.nodes[fr].children :
                    IsShortcutTo(db, db.nodes[fr].children[k], file_id) THEN db
       ELSE IF file_id \notin DOMAIN db.nodes \/ db.nodes[file_id].type # "file" THEN db
       ELSE LET sc == new_id(used \cup IdsOfDb(db))
            IN [db EXCEPT !.nodes =
                  AppendChild(Put(db.nodes, sc,
                                  Node(sc, "shortcut", db.nodes[file_id].name, <<>>, None, file_id)),
                              fr, sc)]

RECURSIVE MigratePinned(_, _, _)
MigratePinned(entries, db, used) ==
    IF entries = <<>> THEN db
    ELSE LET e == Head(entries)
         IN IF IsDict(e.val) /\ Get(e.val, "pinned", FALSE) = TRUE
            THEN MigratePinned(Tail(entries),
                               ensure_favorite_shortcut(db, Get(e.val, "id", e.key), used), used)
            ELSE MigratePinned(Tail(entries), db, used)

\* Every ID a raw document mentions.
IdsOfRaw(data) ==
    {Get(data, "root_id", NoId), Get(data, "quickcopy_root_id", NoId),
     Get(data, "favorites_root_id", NoId)}
    \cup UNION {IF IsDict(e.val)
                THEN {e.key, Get(e.val, "id", e.key), Get(e.val, "target_id", NoId)}
                     \cup Range(Get(e.val, "children", <<>>))
                ELSE {e.key} : e \in Range(Get(data, "nodes", <<>>))}

db_from_dict(data, used) ==
    IF ~IsDict(data) THEN blank_database(used)
    ELSE
    LET nodes_raw == OrElse(Get(data, "nodes", <<>>), <<>>)
        legacy_root_id == Get(data, "root_id", NoId)
        parsed == ParseNodes(nodes_raw, <<>>)
        qc_root == Get(data, "quickcopy_root_id", NoId)
        fav_root == Get(data, "favorites_root_id", NoId)
        inuse == used \cup IdsOfRaw(data) \cup DOMAIN parsed
    IN IF qc_root = NoId \/ qc_root \notin DOMAIN parsed
       THEN LET db == blank_database(inuse)
            IN IF /\ legacy_root_id # NoId
                  /\ legacy_root_id \in DOMAIN parsed
                  /\ parsed[legacy_root_id].type = "folder"
               THEN [db EXCEPT !.nodes =
                        AppendChild(parsed @@ db.nodes, db.quickcopy_root_id, legacy_root_id)]
               ELSE [db EXCEPT !.nodes = parsed @@ db.nodes]
       ELSE LET nf == new_id(inuse)
                fresh == fav_root = NoId \/ fav_root \notin DOMAIN parsed
                db == IF fresh
                      THEN Database(qc_root, nf,
                                    Put(parsed, nf, Node(nf, "folder", FavoritesName, <<>>, None, NoId)))
                      ELSE Database(qc_root, fav_root, parsed)
            IN MigratePinned(nodes_raw, db, inuse)

\* ----------------------------------------------------------------- state
VARIABLES
    db,                 \* App.db: the Database shared by both views
    current_folder_id,  \* ExplorerView.current_folder_id
    view,               \* which frame is raised: "explorer" or "file"; "closed" once
                        \* the window is destroyed
    selected_id,        \* the explorer row that was selected when a file was opened
    file_id,            \* FileView.file_id (NoId before the first open)
    read_text,          \* FileView.read_text: the document in the read widget
    block_widgets,      \* FileView.block_widgets: the documents in the copy sections
    lock_var,           \* FileView.lock_var
    meta,               \* FileView._meta
    last_saved_signature, \* FileView._last_saved_signature: None or <<signature>>
    dirty_poll_job,     \* FileView._dirty_poll_job: a handle of after(), NoJob for None
    autosave_job,       \* FileView._autosave_job: a handle of after(), NoJob for None
    after_jobs,         \* the callbacks Tk has scheduled with after() and not yet run
    notice,             \* the last message box shown ("" for none)
    export_file,        \* the file written by Export: None or <<document>>
    id_map,             \* the remap table of the last import (<<>> otherwise)
    disk,               \* data.json: None (absent) or a file [data, written]
    tmp,                \* data.tmp: None (absent) or a file [data, written]
    pc,                 \* the process: "idle", "writing" (inside Storage.save), "crashed"
    steps               \* the number of user actions so far (bounded by MaxSteps)

vars == <<db, current_folder_id, view, selected_id, file_id, read_text, block_widgets,
          lock_var, meta, last_saved_signature, dirty_poll_job, autosave_job, after_jobs,
          notice, export_file, id_map, disk, tmp, pc, steps>>

\* The dirty watch and the timers of the file view.
watch_vars == <<last_saved_signature, dirty_poll_job, autosave_job, after_jobs>>

fileview_vars == <<file_id, read_text, block_widgets, lock_var, meta, watch_vars>>

NoJob == 0

\* FileView.__init__: no signature, no job; nothing is scheduled at start.
NoWatch ==
    /\ last_saved_signature = None
    /\ dirty_poll_job = NoJob
    /\ autosave_job = NoJob
    /\ after_jobs = {}

\* FileView.__init__: self._meta
InitialMeta == ("_locked" :> FALSE) @@ ("_autosave" :> FALSE) @@ ("_last_saved_ts" :> None)

\* What a Text widget holds after apply_rich_doc(doc), as extract_rich_doc
\* reads it back: the text, and the named tags that cover a range.  (Texts
\* are strings in every document drawn here.)
WidgetDoc(doc) ==
    IF ~IsDict(doc) THEN blank_rich_doc
    ELSE [text |-> Get(doc, "text", ""),
          tags |-> SelectSeq(OrElse(Get(doc, "tags", <<>>), <<>>),
                             LAMBDA t : /\ Get(t, "name", "") # ""
                                        /\ \E k \in DOMAIN Get(t, "ranges", <<>>) :
                                              Len(t.ranges[k]) = 2)]

\* The stored flags are not looked at.
read_default(content, key, default) == default

\* FileView._read_meta
read_meta(content, key, default) ==
    IF ~IsDict(content.read_doc) THEN default ELSE Get(content.read_doc, key, default)

\* FileView._collect_content_from_ui
collect_content_from_ui(m) ==
    FileContent(("_locked" :> m["_locked"]) @@ ("_autosave" :> m["_autosave"])
                @@ ("_last_saved_ts" :> m["_last_saved_ts"]) @@ read_text,
                IF block_widgets = <<>> THEN <<blank_rich_doc>> ELSE block_widgets)

\* FileView._freeze_tags
freeze_tags(tags_list) ==
    LET dicts == SelectSeq(tags_list, LAMBDA t : IsDict(t))
    IN [k \in DOMAIN dicts |->
          [name |-> Get(dicts[k], "name", ""),
           config |-> Get(dicts[k], "config", <<>>),
           ranges |-> SelectSeq(Get(dicts[k], "ranges", <<>>), LAMBDA r : Len(r) = 2)]]

\* FileView._compute_signature_from_content
compute_signature_from_content(content) ==
    LET read == IF IsDict(content.read_doc) THEN content.read_doc ELSE blank_rich_doc
        docs == content.copy_docs
    IN [locked |-> Get(read, "_locked", FALSE) = TRUE,
        autosave |-> Get(read, "_autosave", FALSE) = TRUE,
        last_saved |-> Get(read, "_last_saved_ts", None),
        read_text |-> Get(read, "text", ""),
        read_tags |-> freeze_tags(OrElse(Get(read, "tags", <<>>), <<>>)),
        copy |-> [k \in DOMAIN docs |->
                    LET d == IF IsDict(docs[k]) THEN docs[k] ELSE blank_rich_doc
                    IN <<Get(d, "text", ""), freeze_tags(OrElse(Get(d, "tags", <<>>), <<>>))>>]]

\* FileView._is_dirty (_suspend_dirty_watch is set only inside a render)
is_dirty ==
    /\ file_id # NoId
    /\ last_saved_signature # None
    /\ compute_signature_from_content(collect_content_from_ui(meta)) # last_saved_signature[1]

\* The timers as one value, so that a handler's calls can be chained.
Watch == [dirty_poll_job |-> dirty_poll_job, autosave_job |-> autosave_job,
          after_jobs |-> after_jobs]

SetWatch(w) ==
    /\ dirty_poll_job' = w.dirty_poll_job
    /\ autosave_job' = w.autosave_job
    /\ after_jobs' = w.after_jobs

\* after(ms, callback) returns a handle that no pending job and no kept
\* handle has (Tk numbers its handles and never repeats one).
after(w) ==
    LET taken == {j.id : j \in w.after_jobs} \cup {w.dirty_poll_job, w.autosave_job}
        free == (1..(Cardinality(w.after_jobs) + 3)) \ taken
    IN CHOOSE i \in free : \A j \in free : i <= j

after_cancel(jobs, handle) == {j \in jobs : j.id # handle}

\* A stop that forgets the handle and cancels nothing.
drop_dirty_poll(w) == [w EXCEPT !.dirty_poll_job = NoJob]

\* FileView._force_stop_dirty_poll
force_stop_dirty_poll(w) ==
    [w EXCEPT !.after_jobs = after_cancel(@, w.dirty_poll_job), !.dirty_poll_job = NoJob]

\* FileView._start_dirty_poll
start_dirty_poll(w) ==
    LET s == force_stop_dirty_poll(w)
        n == after(s)
    IN [s EXCEPT !.after_jobs = @ \cup {[id |-> n, callback |-> "tick"]},
                 !.dirty_poll_job = n]

\* `if self._autosave_job is not None: after_cancel(...); self._autosave_job = None`
cancel_autosave(w) ==
    [w EXCEPT !.after_jobs = after_cancel(@, w.autosave_job), !.autosave_job = NoJob]

\* FileView._restart_autosave_loop; enabled is autosave_var, which every
\* handler keeps equal to _meta["_autosave"].
restart_autosave_loop(w, fid, enabled) ==
    LET s == cancel_autosave(w)
        n == after(s)
    IN IF fid = NoId \/ ~enabled THEN s
       ELSE [s EXCEPT !.after_jobs = @ \cup {[id |-> n, callback |-> "loop"]},
                      !.autosave_job = n]

\* FileView._save changes the store only when the open file is still a file.
CanSave == file_id # NoId /\ file_id \in DOMAIN db.nodes /\ db.nodes[file_id].type = "file"

SavedMeta == [meta EXCEPT !["_last_saved_ts"] = now_iso]

SavedDb == [db EXCEPT !.nodes[file_id].content = <<collect_content_from_ui(SavedMeta)>>]

\* messagebox.askyesnocancel: True, False or None.  No dialog is shown when
\* nothing is unsaved.
PromptAnswers == IF is_dirty THEN {"yes", "no", "cancel"} ELSE {"none"}

\* FileView._prompt_save_if_dirty, given the answer the dialog gets: whether
\* the caller goes on, whether _save wrote the file, whether the dialog was shown.
prompt_save_if_dirty(res) ==
    IF ~is_dirty THEN [proceed |-> TRUE, saved |-> FALSE, asked |-> FALSE]
    ELSE IF res = "cancel" THEN [proceed |-> FALSE, saved |-> FALSE, asked |-> TRUE]
    ELSE IF res = "yes" THEN [proceed |-> TRUE, saved |-> CanSave, asked |-> TRUE]
    ELSE [proceed |-> TRUE, saved |-> FALSE, asked |-> TRUE]

\* Every ID the state mentions anywhere: new_id() never returns one of them.
UsedIds ==
    IdsOfDb(db) \cup {current_folder_id, selected_id, file_id}
    \cup (IF export_file = None THEN {} ELSE IdsOfRaw(export_file[1]))
    \cup (IF disk = None THEN {} ELSE IdsOfRaw(disk.data))
    \cup (DOMAIN id_map) \cup Range(id_map)

FreeIds == Ids \ UsedIds

\* json.dump writes a document in this many pieces: a file holds the first
\* `written` of them, and is whole once it holds them all.
Chunks == 2

WholeFile(data) == [data |-> data, written |-> Chunks]

IsWhole(f) == f # None /\ f.written = Chunks

\* App._on_db_changed -> Storage.save, run to completion without an I/O error.
on_db_changed(newdb) ==
    /\ disk' = WholeFile(db_to_dict(newdb))
    /\ tmp' = None
    /\ pc' = pc

IsFolder(d, i) == i \in DOMAIN d.nodes /\ d.nodes[i].type = "folder"

\* A root test that forgets the QuickCopy root.
IsRootFavoritesOnly(d, i) == i = d.favorites_root_id

IsRoot(d, i) == i \in {d.favorites_root_id, d.quickcopy_root_id}

\* --------------------------------------------------------- favorites logic
is_favorited(d, fid) ==
    /\ IsFolder(d, d.favorites_root_id)
    /\ \E k \in DOMAIN d.nodes[d.favorites_root_id].children :
          IsShortcutTo(d, d.nodes[d.favorites_root_id].children[k], fid)

RECURSIVE RemoveFirst(_, _)
RemoveFirst(s, x) ==
    IF s = <<>> THEN <<>>
    ELSE IF Head(s) = x THEN Tail(s)
    ELSE <<Head(s)>> \o RemoveFirst(Tail(s), x)

add_shortcut_for_target(d, fid, used) ==
    LET fr == d.favorites_root_id
    IN IF fid \notin DOMAIN d.nodes \/ d.nodes[fid].type # "file" \/ ~IsFolder(d, fr) THEN d
       ELSE IF is_favorited(d, fid) THEN d
       ELSE LET sc == new_id(used)
            IN [d EXCEPT !.nodes =
                  AppendChild(Put(d.nodes, sc,
                                  Node(sc, "shortcut", d.nodes[fid].name, <<>>, None, fid)),
                              fr, sc)]

remove_shortcut_for_target(d, fid) ==
    LET fr == d.favorites_root_id
    IN IF ~IsFolder(d, fr) THEN d
       ELSE LET ch == d.nodes[fr].children
                hits == {k \in DOMAIN ch : IsShortcutTo(d, ch[k], fid)}
            IN IF hits = {} THEN d
               ELSE LET k == CHOOSE i \in hits : \A j \in hits : i <= j
                    IN [d EXCEPT !.nodes =
                          Pop([d.nodes EXCEPT ![fr].children = RemoveFirst(@, ch[k])], ch[k])]

remove_shortcut(d, sid) ==
    LET fr == d.favorites_root_id
        n1 == IF IsFolder(d, fr)
              THEN [d.nodes EXCEPT ![fr].children = Without(@, sid)]
              ELSE d.nodes
    IN [d EXCEPT !.nodes = Pop(n1, sid)]

\* ------------------------------------------------------------- tree logic
\* A parent search that never finds one.
NoParents(d, cid) == {}

Parents(d, cid) ==
    {p \in DOMAIN d.nodes : d.nodes[p].type = "folder" /\ cid \in Range(d.nodes[p].children)}

RECURSIVE delete_subtree(_, _)
RECURSIVE DeleteEach(_, _)
delete_subtree(nodes_, nid) ==
    IF nid \notin DOMAIN nodes_ THEN nodes_
    ELSE Pop(IF nodes_[nid].type = "folder"
             THEN DeleteEach(nodes_, nodes_[nid].children)
             ELSE nodes_,
             nid)

DeleteEach(nodes_, cids) ==
    IF cids = <<>> THEN nodes_
    ELSE DeleteEach(delete_subtree(nodes_, Head(cids)), Tail(cids))

RECURSIVE strip(_)
strip(s) ==
    IF s = <<>> THEN s
    ELSE IF Head(s) = " " THEN strip(Tail(s))
    ELSE IF s[Len(s)] = " " THEN strip(SubSeq(s, 1, Len(s) - 1))
    ELSE s

safe_name(name) == IF strip(name) = <<>> THEN UntitledName ELSE strip(name)

\* ---------------------------------------------------------- user inputs
CreateInputs == {<<"a">>}

\* dialogs.ask_text: None when the prompt is cancelled, else the text typed.
AskText(texts) == {None} \cup {<<t>> : t \in texts}
RenameInputs == {<<" ", "b">>, <<" ">>}

\* ExplorerView._get_selected_node_anywhere.  While the explorer is raised the
\* user selects any row first (the search box lists every node); while the
\* file view is raised the selection is the one left behind: the row that was
\* opened if it still exists, else the folder selected in the left tree.
FrozenSelection ==
    IF selected_id \in DOMAIN db.nodes THEN selected_id ELSE current_folder_id

Selected(sel) ==
    /\ sel \in DOMAIN db.nodes
    /\ view = "file" => sel = FrozenSelection

Quiet == notice' = "" /\ id_map' = <<>>

\* One more event handled by the window, within the bound on a session's length.
Step == view # "closed" /\ steps < MaxSteps /\ steps' = steps + 1

\* ------------------------------------------------------------ navigation
go_favorites ==
    /\ Step
    /\ view = "explorer"
    /\ current_folder_id' = db.favorites_root_id
    /\ selected_id' = NoId
    /\ Quiet
    /\ UNCHANGED <<db, view, fileview_vars, export_file, disk, tmp, pc>>

go_quickcopy ==
    /\ Step
    /\ view = "explorer"
    /\ current_folder_id' = db.quickcopy_root_id
    /\ selected_id' = NoId
    /\ Quiet
    /\ UNCHANGED <<db, view, fileview_vars, export_file, disk, tmp, pc>>

\* App.open_file -> FileView.open_file and _render_from_content, for a node
\* that is a file (open_selected hands over nothing else), given the answer to
\* the prompt for unsaved changes.  App.open_file raises the file view whatever
\* FileView.open_file did.
open_file(fid, sel, res) ==
    LET p == prompt_save_if_dirty(res)
        d1 == IF p.saved THEN SavedDb ELSE db
    IN /\ notice' = IF p.asked THEN "Unsaved changes" ELSE ""
       /\ id_map' = <<>>
       /\ view' = "file"
       /\ selected_id' = sel
       /\ IF ~p.proceed
          THEN UNCHANGED <<db, fileview_vars, disk, tmp, pc>>
          ELSE /\ file_id' = fid
               /\ db' = IF d1.nodes[fid].content = None
                        THEN [d1 EXCEPT !.nodes[fid].content = <<BlankFileContent>>]
                        ELSE d1
               /\ IF p.saved THEN on_db_changed(d1) ELSE UNCHANGED <<disk, tmp, pc>>
               /\ LET content == db'.nodes[fid].content[1]
                      docs == OrElse(content.copy_docs, <<blank_rich_doc>>)
                  IN /\ meta' = ("_locked" :> (read_meta(content, "_locked", FALSE) = TRUE))
                                 @@ ("_autosave" :> (read_meta(content, "_autosave", FALSE) = TRUE))
                                 @@ ("_last_saved_ts" :> read_meta(content, "_last_saved_ts", None))
                     /\ lock_var' = meta'["_locked"]
                     /\ read_text' = WidgetDoc(content.read_doc)
                     /\ block_widgets' = [k \in DOMAIN docs |-> WidgetDoc(docs[k])]
                     /\ last_saved_signature' = <<compute_signature_from_content(content)>>
                     /\ SetWatch(restart_autosave_loop(start_dirty_poll(Watch), fid,
                                                       meta'["_autosave"]))
       /\ UNCHANGED <<current_folder_id, export_file>>

OpenFile(fid, sel) == \E res \in PromptAnswers : open_file(fid, sel, res)

\* A refusal that also leaves the folder on display for the QuickCopy root.
MissingTargetGoesHome ==
    /\ notice' = "Missing target"
    /\ id_map' = <<>>
    /\ current_folder_id' = db.quickcopy_root_id
    /\ UNCHANGED <<db, view, selected_id, fileview_vars, export_file, disk, tmp, pc>>

\* messagebox.showerror("Missing target", ...) and return
MissingTarget ==
    /\ notice' = "Missing target"
    /\ id_map' = <<>>
    /\ UNCHANGED <<db, current_folder_id, view, selected_id, fileview_vars,
                   export_file, disk, tmp, pc>>

open_selected(sel) ==
    /\ Step
    /\ Selected(sel)
    /\ LET node == db.nodes[sel]
       IN CASE node.type = "folder" ->
                 /\ current_folder_id' = sel
                 /\ selected_id' = NoId
                 /\ Quiet
                 /\ UNCHANGED <<db, view, fileview_vars, export_file, disk, tmp, pc>>
            [] node.type = "shortcut" ->
                 IF node.target_id \in DOMAIN db.nodes /\ db.nodes[node.target_id].type = "file"
                 THEN OpenFile(node.target_id, sel)
                 ELSE MissingTarget
            [] node.type = "file" -> OpenFile(sel, sel)

\* FileView._back, given the answer to the prompt for unsaved changes, then
\* App.back_to_explorer.  refresh_all(return_state) sets current_folder_id to
\* the folder that was on display when the file was opened, if db.nodes still
\* has it: the file view has no handler that displays another folder, so that
\* is the value current_folder_id has already.
BackAnswered(res) ==
    /\ Step
    /\ view = "file"
    /\ LET p == prompt_save_if_dirty(res)
       IN /\ notice' = IF p.asked THEN "Unsaved changes" ELSE ""
          /\ id_map' = <<>>
          /\ IF ~p.proceed
             THEN UNCHANGED <<db, view, selected_id, meta, watch_vars, disk, tmp, pc>>
             ELSE /\ IF p.saved
                     THEN /\ meta' = SavedMeta
                          /\ db' = SavedDb
                          /\ on_db_changed(db')
                          /\ last_saved_signature' =
                                <<compute_signature_from_content(db'.nodes[file_id].content[1])>>
                     ELSE UNCHANGED <<db, meta, last_saved_signature, disk, tmp, pc>>
                  /\ SetWatch(cancel_autosave(force_stop_dirty_poll(Watch)))
                  /\ view' = "explorer"
                  /\ selected_id' = NoId
    /\ UNCHANGED <<current_folder_id, file_id, read_text, block_widgets, lock_var, export_file>>

Back == \E res \in PromptAnswers : BackAnswered(res)

\* ------------------------------------------------- create / rename / delete
\* A create that always lands in the QuickCopy root.
CreateInQuickCopyRoot == db.quickcopy_root_id

CreateParent ==
    IF current_folder_id \in DOMAIN db.nodes THEN current_folder_id ELSE db.quickcopy_root_id

\* The body shared by create_folder and create_file; `answer` is what
\* ask_text returned.  The handler returns before the prompt when the parent
\* is not a folder, and after it when the prompt was cancelled.
CreateNode(type, content, answer) ==
    /\ Step
    /\ view = "explorer"
    /\ IF ~IsFolder(db, CreateParent) \/ answer = None
       THEN /\ Quiet
            /\ UNCHANGED <<db, selected_id, disk, tmp, pc>>
       ELSE /\ FreeIds # {}
            /\ LET nid == new_id(UsedIds)
               IN db' = [db EXCEPT !.nodes =
                            AppendChild(Put(db.nodes, nid,
                                            Node(nid, type, safe_name(answer[1]), <<>>, content, NoId)),
                                        CreateParent, nid)]
            /\ on_db_changed(db')
            /\ selected_id' = NoId
            /\ Quiet
    /\ UNCHANGED <<current_folder_id, view, fileview_vars, export_file>>

create_folder == \E answer \in AskText(CreateInputs) : CreateNode("folder", None, answer)

create_file ==
    \E answer \in AskText(CreateInputs) : CreateNode("file", <<BlankFileContent>>, answer)

KeepShortcutNames(d, fid) == d

SyncShortcutNames(d, fid) ==
    LET fr == d.favorites_root_id
    IN IF ~IsFolder(d, fr) THEN d
       ELSE [d EXCEPT !.nodes =
               [i \in DOMAIN d.nodes |->
                  IF i \in Range(d.nodes[fr].children) /\ IsShortcutTo(d, i, fid)
                  THEN [d.nodes[i] EXCEPT !.name = d.nodes[fid].name]
                  ELSE d.nodes[i]]]

rename_selected(sel) ==
    /\ Step
    /\ view = "explorer"
    /\ Selected(sel)
    /\ IF IsRoot(db, sel)
       THEN /\ notice' = "Favorites and QuickCopy roots cannot be renamed."
            /\ id_map' = <<>>
            /\ UNCHANGED <<db, current_folder_id, view, selected_id, fileview_vars,
                           export_file, disk, tmp, pc>>
       ELSE \E answer \in AskText(RenameInputs) :
            IF answer = None
            THEN /\ Quiet
                 /\ UNCHANGED <<db, current_folder_id, view, selected_id, fileview_vars,
                                export_file, disk, tmp, pc>>
            ELSE
            LET new_name == answer[1]
                nid == IF db.nodes[sel].type = "shortcut"
                          /\ db.nodes[sel].target_id \in DOMAIN db.nodes
                       THEN db.nodes[sel].target_id ELSE sel
                renamed == [db EXCEPT !.nodes[nid].name = safe_name(new_name)]
            IN /\ db' = IF db.nodes[nid].type = "file"
                        THEN SyncShortcutNames(renamed, nid) ELSE renamed
               /\ on_db_changed(db')
               /\ selected_id' = NoId
               /\ Quiet
               /\ UNCHANGED <<current_folder_id, view, fileview_vars, export_file>>

\* _collect_subtree: preorder walk; depth stands for Python's recursion limit.
RECURSIVE collect_subtree(_, _, _)
collect_subtree(d, nid, depth) ==
    IF nid \notin DOMAIN d.nodes THEN <<>>
    ELSE IF depth = 0 THEN <<NoId>>
    ELSE LET n == d.nodes[nid]
             walk[k \in 0..Len(n.children)] ==
                 IF k = 0 THEN <<>>
                 ELSE walk[k - 1] \o collect_subtree(d, n.children[k], depth - 1)
         IN <<nid>> \o (IF n.type = "folder" THEN walk[Len(n.children)] ELSE <<>>)

\* The recursion of _delete_subtree and of _collect_subtree from nid goes
\* deeper than the interpreter allows: RecursionError.
RecursionRaised(d, nid) == NoId \in Range(collect_subtree(d, nid, MaxDepth))

\* The body of delete_selected for a folder or a file, once confirmed.
\* _find_parent_folder returns the first folder, in db.nodes' insertion order,
\* that lists the node: any of them when several do.
DeleteNode(sel, parent) ==
    LET node == db.nodes[sel]
        n1 == IF parent # NoId
              THEN [db EXCEPT !.nodes[parent].children = Without(@, sel)]
              ELSE db
        n2 == IF node.type = "file" THEN remove_shortcut_for_target(n1, sel) ELSE n1
    IN /\ current_folder_id' =
             IF node.type = "folder" /\ sel = current_folder_id
             THEN (IF parent # NoId THEN parent ELSE db.quickcopy_root_id)
             ELSE current_folder_id
       /\ db' = IF RecursionRaised(n2, sel) THEN n2
                ELSE [n2 EXCEPT !.nodes = delete_subtree(n2.nodes, sel)]

delete_selected(sel) ==
    /\ Step
    /\ Selected(sel)
    /\ IF IsRoot(db, sel)
       THEN /\ notice' = "Favorites and QuickCopy roots cannot be deleted."
            /\ id_map' = <<>>
            /\ UNCHANGED <<db, current_folder_id, view, selected_id, fileview_vars,
                           export_file, disk, tmp, pc>>
       ELSE /\ IF db.nodes[sel].type = "shortcut"
               THEN /\ db' = remove_shortcut(db, sel)
                    /\ UNCHANGED current_folder_id
               ELSE \E parent \in (IF Parents(db, sel) = {} THEN {NoId} ELSE Parents(db, sel)) :
                       DeleteNode(sel, parent)
            /\ IF sel \in DOMAIN db'.nodes
               THEN /\ notice' = "RecursionError"
                    /\ id_map' = <<>>
                    /\ UNCHANGED <<selected_id, disk, tmp, pc>>
               ELSE /\ on_db_changed(db')
                    /\ selected_id' = NoId
                    /\ Quiet
            /\ UNCHANGED <<view, fileview_vars, export_file>>

\* ------------------------------------------------------- favorite toggles
toggle_favorite_selected(sel) ==
    /\ Step
    /\ view = "explorer"
    /\ Selected(sel)
    /\ db.nodes[sel].type \in {"shortcut", "file"}
    /\ db.nodes[sel].type = "file" /\ ~is_favorited(db, sel) => FreeIds # {}
    /\ db' = IF db.nodes[sel].type = "shortcut" THEN remove_shortcut(db, sel)
             ELSE IF is_favorited(db, sel) THEN remove_shortcut_for_target(db, sel)
             ELSE add_shortcut_for_target(db, sel, UsedIds)
    /\ on_db_changed(db')
    /\ selected_id' = NoId
    /\ Quiet
    /\ UNCHANGED <<current_folder_id, view, fileview_vars, export_file>>

FvAddShortcut(d, fid, used) ==
    LET sc == new_id(used)
    IN [d EXCEPT !.nodes =
          AppendChild(Put(d.nodes, sc, Node(sc, "shortcut", d.nodes[fid].name, <<>>, None, fid)),
                      d.favorites_root_id, sc)]

\* FileView._toggle_favorite
fv_toggle_favorite ==
    /\ Step
    /\ view = "file"
    /\ file_id # NoId
    /\ IsFolder(db, db.favorites_root_id)
    /\ IF is_favorited(db, file_id)
       THEN /\ db' = remove_shortcut_for_target(db, file_id)
            /\ on_db_changed(db')
       ELSE IF file_id \in DOMAIN db.nodes /\ db.nodes[file_id].type = "file"
       THEN /\ FreeIds # {}
            /\ db' = FvAddShortcut(db, file_id, UsedIds)
            /\ on_db_changed(db')
       ELSE UNCHANGED <<db, disk, tmp, pc>>
    /\ Quiet
    /\ UNCHANGED <<current_folder_id, view, selected_id, fileview_vars, export_file>>

\* ------------------------------------------------- whole-store export/import
export_bundle ==
    /\ Step
    /\ view = "explorer"
    /\ export_file' = <<db_to_dict(db)>>
    /\ Quiet
    /\ UNCHANGED <<db, current_folder_id, view, selected_id, fileview_vars, disk, tmp, pc>>

\* An id_map that keeps every incoming key.
RemapKeepingKeys(keys, taken, used) == [k \in Range(keys) |-> k]

\* id_map of import_bundle: a fresh ID for every incoming key that the store
\* already holds, the key itself otherwise.
RECURSIVE RemapColliding(_, _, _)
RemapColliding(keys, taken, used) ==
    IF keys = <<>> THEN <<>>
    ELSE LET k == Head(keys)
             n == IF k \in taken THEN new_id(used) ELSE k
         IN (k :> n) @@ RemapColliding(Tail(keys), taken, used \cup {n})

MapGet(m, k) == IF k \in DOMAIN m THEN m[k] ELSE NoId

RemapChildren(m, children) ==
    LET kept == SelectSeq(children, LAMBDA c : c \in DOMAIN m)
    IN [i \in DOMAIN kept |-> m[kept[i]]]

KeepMine(mine, theirs) == mine

RECURSIVE MergeChildren(_, _)
MergeChildren(mine, theirs) ==
    IF theirs = <<>> THEN mine
    ELSE MergeChildren(IF Head(theirs) \in Range(mine) THEN mine ELSE Append(mine, Head(theirs)),
                       Tail(theirs))

ImportedNodes(incoming, m) ==
    [n \in Range(m) |->
       LET old == CHOOSE o \in DOMAIN m : m[o] = n
           node == incoming.nodes[old]
       IN Node(n, node.type, node.name,
               IF node.type = "folder" THEN RemapChildren(m, node.children) ELSE <<>>,
               node.content,
               IF node.type = "shortcut" THEN MapGet(m, node.target_id) ELSE node.target_id)]

MergeImport(d, incoming, m, attach) ==
    LET n1 == ImportedNodes(incoming, m) @@ d.nodes
        qc_in == MapGet(m, incoming.quickcopy_root_id)
        n2 == IF qc_in # NoId /\ qc_in \in DOMAIN n1 THEN AppendChild(n1, attach, qc_in) ELSE n1
        fav_in == MapGet(m, incoming.favorites_root_id)
        n3 == IF fav_in # NoId /\ fav_in \in DOMAIN n2
              THEN [n2 EXCEPT ![d.favorites_root_id].children =
                                 MergeChildren(@, n2[fav_in].children)]
              ELSE n2
    IN [d EXCEPT !.nodes = n3]

import_bundle ==
    /\ Step
    /\ view = "explorer"
    /\ export_file # None
    /\ LET incoming == db_from_dict(export_file[1], UsedIds)
           taken == DOMAIN db.nodes
           m == RemapColliding(SetToSeq(DOMAIN incoming.nodes), taken, UsedIds)
           attach == IF IsFolder(db, current_folder_id)
                     THEN current_folder_id ELSE db.quickcopy_root_id
       IN /\ Cardinality(FreeIds) >= Cardinality(DOMAIN incoming.nodes \cap taken)
          /\ db' = MergeImport(db, incoming, m, attach)
          /\ id_map' = m
    /\ on_db_changed(db')
    /\ notice' = ""
    /\ selected_id' = NoId
    /\ UNCHANGED <<current_folder_id, view, fileview_vars, export_file>>

\* ------------------------------------------------------------ the program
\* A store an earlier session left in data.json: a folder in QuickCopy that
\* holds one favorited file (create_folder, open it, create_file, toggle).
SavedStoreA ==
    Database(2, 1,
             (1 :> Node(1, "folder", FavoritesName, <<5>>, None, NoId))
             @@ (2 :> Node(2, "folder", QuickCopyName, <<3>>, None, NoId))
             @@ (3 :> Node(3, "folder", <<"a">>, <<4>>, None, NoId))
             @@ (4 :> Node(4, "file", <<"a">>, <<>>, <<BlankFileContent>>, NoId))
             @@ (5 :> Node(5, "shortcut", <<"a">>, <<>>, None, 4)))

SavedStores == {SavedStoreA}

\* App.__init__: Storage.load_or_create_blank (a blank database is saved when
\* data.json is absent, else data.json is loaded); the explorer shows the
\* QuickCopy root and no file has been opened.
AppInit(d0) ==
    /\ db = IF d0 = None THEN blank_database({}) ELSE db_from_dict(d0[1], {})
    /\ disk = IF d0 = None THEN WholeFile(db_to_dict(db)) ELSE WholeFile(d0[1])
    /\ current_folder_id = db.quickcopy_root_id
    /\ view = "explorer"
    /\ selected_id = NoId
    /\ file_id = NoId
    /\ read_text = blank_rich_doc
    /\ block_widgets = <<>>
    /\ lock_var = FALSE
    /\ meta = InitialMeta
    /\ NoWatch
    /\ notice = ""
    /\ export_file = None
    /\ id_map = <<>>
    /\ tmp = None
    /\ pc = "idle"
    /\ steps = 0

Init == \E d0 \in {None} \cup {<<db_to_dict(s)>> : s \in SavedStores} : AppInit(d0)

Next ==
    \/ go_favorites
    \/ go_quickcopy
    \/ \E sel \in Ids : open_selected(sel)
    \/ Back
    \/ create_folder
    \/ create_file
    \/ \E sel \in Ids : rename_selected(sel)
    \/ \E sel \in Ids : delete_selected(sel)
    \/ \E sel \in Ids : toggle_favorite_selected(sel)
    \/ fv_toggle_favorite
    \/ export_bundle
    \/ import_bundle

Spec == Init /\ [][Next]_vars

\* ------------------------------------------------- the tree handlers alone
\* A store an earlier session left in data.json: a folder inside a folder in
\* QuickCopy, the inner one holding a favorited file.
SavedStoreNested ==
    Database(2, 1,
             (1 :> Node(1, "folder", FavoritesName, <<6>>, None, NoId))
             @@ (2 :> Node(2, "folder", QuickCopyName, <<3>>, None, NoId))
             @@ (3 :> Node(3, "folder", <<"a">>, <<4>>, None, NoId))
             @@ (4 :> Node(4, "folder", <<"b">>, <<5>>, None, NoId))
             @@ (5 :> Node(5, "file", <<"a">>, <<>>, <<BlankFileContent>>, NoId))
             @@ (6 :> Node(6, "shortcut", <<"a">>, <<>>, None, 5)))

\* The app is started in an empty directory or on the saved store.
TreeInit == \E d0 \in {None, <<db_to_dict(SavedStoreNested)>>} : AppInit(d0)

\* Navigation, create, rename, delete and the favorite toggles.
TreeNext ==
    \/ go_favorites
    \/ go_quickcopy
    \/ \E sel \in Ids : open_selected(sel)
    \/ Back
    \/ create_folder
    \/ create_file
    \/ \E sel \in Ids : rename_selected(sel)
    \/ \E sel \in Ids : delete_selected(sel)
    \/ \E sel \in Ids : toggle_favorite_selected(sel)
    \/ fv_toggle_favorite

SpecTree == TreeInit /\ [][TreeNext]_vars

\* ------------------------------------------- a store with dangling favorites
\* A data.json whose Favorites holds, beside the shortcut of a file, three
\* shortcuts that lead nowhere: one without target_id, one to an ID that no
\* node has, one to a folder.
SavedStoreDangling ==
    Database(2, 1,
             (1 :> Node(1, "folder", FavoritesName, <<4, 5, 6, 7>>, None, NoId))
             @@ (2 :> Node(2, "folder", QuickCopyName, <<3>>, None, NoId))
             @@ (3 :> Node(3, "file", <<"a">>, <<>>, <<BlankFileContent>>, NoId))
             @@ (4 :> Node(4, "shortcut", <<"a">>, <<>>, None, 3))
             @@ (5 :> Node(5, "shortcut", <<"b">>, <<>>, None, NoId))
             @@ (6 :> Node(6, "shortcut", <<"b">>, <<>>, None, 8))
             @@ (7 :> Node(7, "shortcut", <<"b">>, <<>>, None, 2)))

DanglingInit == AppInit(<<db_to_dict(SavedStoreDangling)>>)

\* Navigation, open, delete and the favorite toggle of the explorer.
DanglingNext ==
    \/ go_favorites
    \/ go_quickcopy
    \/ \E sel \in Ids : open_selected(sel)
    \/ Back
    \/ \E sel \in Ids : delete_selected(sel)
    \/ \E sel \in Ids : toggle_favorite_selected(sel)

SpecDangling == DanglingInit /\ [][DanglingNext]_vars

\* -------------------------------------------------------------- bundle_io
\* bundle_io has no caller in the UI; its two functions are applied here to
\* the stores the program reaches.  A raised exception is the record Raised(e).
Raised(e) == [raised |-> e]

\* The keys of a dict filled in the order of ids: first occurrences.
RECURSIVE FirstOccurrences(_, _)
FirstOccurrences(ids, seen) ==
    IF ids = <<>> THEN <<>>
    ELSE IF Head(ids) \in seen THEN FirstOccurrences(Tail(ids), seen)
    ELSE <<Head(ids)>> \o FirstOccurrences(Tail(ids), seen \cup {Head(ids)})

\* bundle_io.export_bundle: FileContent has no attribute read_rich, so a
\* subtree holding a file with content raises AttributeError.
bundle_export(d, folder_id) ==
    LET ids == collect_subtree(d, folder_id, MaxDepth)
        keys == FirstOccurrences(ids, {})
    IN IF NoId \in Range(ids) THEN Raised("RecursionError")
       ELSE IF \E i \in Range(ids) : d.nodes[i].type # "folder" /\ d.nodes[i].content # None
       THEN Raised("AttributeError")
       ELSE [bundle_root_id |-> folder_id,
             nodes |-> [k \in DOMAIN keys |->
                          LET n == d.nodes[keys[k]]
                          IN [key |-> keys[k],
                              val |-> [id |-> n.id, type |-> n.type, name |-> n.name,
                                       children |-> n.children,
                                       content |-> IF n.type = "folder" THEN None
                                                   ELSE [read_rich |-> blank_rich_doc,
                                                         copy_blocks |-> <<blank_rich_doc>>]]]]]

\* Bundles written by hand in the format export_bundle aims at; the shortcut
\* names its target as a node of the store does.
SampleBundleWithFile ==
    [bundle_root_id |-> 1,
     nodes |-> <<[key |-> 1, val |-> [id |-> 1, type |-> "folder", name |-> <<"b">>,
                                      children |-> <<2, 3>>, content |-> None]],
                 [key |-> 2, val |-> [id |-> 2, type |-> "shortcut", name |-> <<"b">>,
                                      children |-> <<>>,
                                      content |-> [read_rich |-> blank_rich_doc,
                                                   copy_blocks |-> <<blank_rich_doc>>],
                                      target_id |-> 3]],
                 [key |-> 3, val |-> [id |-> 3, type |-> "file", name |-> <<"b">>,
                                      children |-> <<>>,
                                      content |-> [read_rich |-> blank_rich_doc,
                                                   copy_blocks |-> <<blank_rich_doc>>]]]>>]

SampleBundleNoRoot == [nodes |-> SampleBundleWithFile.nodes]

\* Bundles that lack what the import requires: no "nodes", empty "nodes", a
\* bundle_root_id that is no key of "nodes".
SampleBundleNoNodes == [bundle_root_id |-> 1]

SampleBundleEmptyNodes == [bundle_root_id |-> 1, nodes |-> <<>>]

SampleBundleStrayRoot == [bundle_root_id |-> 7, nodes |-> SampleBundleWithFile.nodes]

SampleBundles ==
    {SampleBundleWithFile, SampleBundleNoRoot, SampleBundleNoNodes, SampleBundleEmptyNodes,
     SampleBundleStrayRoot}

\* id_map of import_bundle_into_folder: new_id() for every key.
RECURSIVE FreshIds(_, _)
FreshIds(keys, used) ==
    IF keys = <<>> THEN <<>>
    ELSE LET n == new_id(used)
         IN (Head(keys) :> n) @@ FreshIds(Tail(keys), used \cup {n})

\* The "Create nodes" loop: a file entry stops it at `from models import
\* FileContent, blank_rich` (models has no blank_rich), after the entries
\* before it were inserted.
RECURSIVE InsertBundleNodes(_, _, _)
InsertBundleNodes(entries, m, nodes_) ==
    IF entries = <<>> THEN [nodes |-> nodes_, raised |-> ""]
    ELSE LET e == Head(entries)
         IN IF ~IsDict(e.val) THEN [nodes |-> nodes_, raised |-> "AttributeError"]
            ELSE LET ntype == Get(e.val, "type", "folder")
                 IN IF ntype = "file" THEN [nodes |-> nodes_, raised |-> "ImportError"]
                    ELSE InsertBundleNodes(
                           Tail(entries), m,
                           Put(nodes_, m[e.key],
                               Node(m[e.key], ntype, Get(e.val, "name", <<"I", "m", "p", "o", "r", "t", "e", "d">>),
                                    IF ntype = "folder"
                                    THEN RemapChildren(m, Get(e.val, "children", <<>>))
                                    ELSE <<>>,
                                    None, NoId)))

BundleKeys(nodes_raw) == [k \in DOMAIN nodes_raw |-> nodes_raw[k].key]

\* A target test that only asks for the ID to be known.
TargetAbsent(d, target_folder_id) == target_folder_id \notin DOMAIN d.nodes

\* `target_folder_id not in db.nodes or db.nodes[target_folder_id].type != "folder"`
TargetInvalid(d, target_folder_id) ==
    target_folder_id \notin DOMAIN d.nodes \/ d.nodes[target_folder_id].type # "folder"

\* `not nodes_raw or not bundle_root_id or bundle_root_id not in nodes_raw`
BundleLacksData(nodes_raw, bundle_root_id) ==
    \/ nodes_raw = <<>>
    \/ bundle_root_id = NoId
    \/ bundle_root_id \notin Range(BundleKeys(nodes_raw))

import_bundle_into_folder(bundle, target_folder_id) ==
    /\ Step
    /\ IsDict(bundle)
    /\ LET nodes_raw == Get(bundle, "nodes", <<>>)
           bundle_root_id == Get(bundle, "bundle_root_id", NoId)
           m == FreshIds(BundleKeys(nodes_raw), UsedIds)
           r == InsertBundleNodes(nodes_raw, m, db.nodes)
       IN IF TargetInvalid(db, target_folder_id)
          THEN /\ notice' = "Target folder is invalid."
               /\ UNCHANGED db
               /\ id_map' = <<>>
          ELSE IF BundleLacksData(nodes_raw, bundle_root_id)
          THEN /\ notice' = "Bundle is missing required data."
               /\ UNCHANGED db
               /\ id_map' = <<>>
          ELSE /\ Cardinality(FreeIds) >= Len(nodes_raw)
               /\ id_map' = m
               /\ IF r.raised # ""
                  THEN /\ db' = [db EXCEPT !.nodes = r.nodes]
                       /\ notice' = r.raised
                  ELSE /\ db' = [db EXCEPT !.nodes =
                                   AppendChild(r.nodes, target_folder_id, m[bundle_root_id])]
                       /\ notice' = "Imported."
    /\ UNCHANGED <<current_folder_id, view, selected_id, fileview_vars, export_file,
                   disk, tmp, pc>>

\* The bundles handed to the import: the hand-written ones and the export of
\* the folder on display when export_bundle returned one; the targets: that
\* folder, no node at all, or a node that is not a folder.
BundleInputs ==
    SampleBundles \cup (IF IsFolder(db, current_folder_id)
                        THEN {bundle_export(db, current_folder_id)} \ {Raised(e) : e \in {"RecursionError", "AttributeError"}}
                        ELSE {})

BundleTargets ==
    {current_folder_id, NoId} \cup {i \in DOMAIN db.nodes : db.nodes[i].type # "folder"}

\* The handlers that shape what an import meets: nodes are created and
\* deleted, the folder on display changes, the store is exported and imported.
BundleNext ==
    \/ go_favorites
    \/ create_folder
    \/ create_file
    \/ \E sel \in Ids : delete_selected(sel)
    \/ export_bundle
    \/ import_bundle
    \/ \E bundle \in BundleInputs, target \in BundleTargets :
          import_bundle_into_folder(bundle, target)

SpecBundle == Init /\ [][BundleNext]_vars

\* ---------------------------------------------------------- the file view
\* FileView._add_block
add_block ==
    /\ Step
    /\ view = "file"
    /\ block_widgets' = IF lock_var THEN block_widgets
                        ELSE Append(block_widgets, WidgetDoc(blank_rich_doc))
    /\ Quiet
    /\ UNCHANGED <<db, current_folder_id, view, selected_id, file_id, read_text, lock_var,
                   meta, watch_vars, export_file, disk, tmp, pc>>

\* _remove_block refuses at this many sections or fewer ...
KeepsNoSection(widgets) == Len(widgets) < 1

\* ... `len(self.block_widgets) <= 1`
KeepsLastSection(widgets) == Len(widgets) <= 1

\* FileView._remove_block(idx), idx counted from 0 as the row's button has it
remove_block(idx) ==
    /\ Step
    /\ view = "file"
    /\ idx \in 0..(Len(block_widgets) - 1)
    /\ IF lock_var
       THEN /\ UNCHANGED block_widgets
            /\ notice' = ""
       ELSE IF KeepsLastSection(block_widgets)
       THEN /\ UNCHANGED block_widgets
            /\ notice' = "You must keep at least one copy section."
       ELSE /\ block_widgets' = [k \in 1..(Len(block_widgets) - 1) |->
                                   IF k <= idx THEN block_widgets[k] ELSE block_widgets[k + 1]]
            /\ notice' = ""
    /\ id_map' = <<>>
    /\ UNCHANGED <<db, current_folder_id, view, selected_id, file_id, read_text, lock_var,
                   meta, watch_vars, export_file, disk, tmp, pc>>

\* FileView._move_block(idx, direction) and _rebuild_blocks
move_block_unlocked(idx, direction) ==
    /\ Step
    /\ view = "file"
    /\ idx \in 0..(Len(block_widgets) - 1)
    /\ LET new_idx == idx + direction
           docs == [k \in DOMAIN block_widgets |->
                      IF k = idx + 1 THEN block_widgets[new_idx + 1]
                      ELSE IF k = new_idx + 1 THEN block_widgets[idx + 1]
                      ELSE block_widgets[k]]
       IN block_widgets' =
            IF new_idx < 0 \/ new_idx >= Len(block_widgets) THEN block_widgets
            ELSE [k \in DOMAIN docs |-> WidgetDoc(docs[k])]
    /\ Quiet
    /\ UNCHANGED <<db, current_folder_id, view, selected_id, file_id, read_text, lock_var,
                   meta, watch_vars, export_file, disk, tmp, pc>>

move_block(idx, direction) ==
    /\ Step
    /\ view = "file"
    /\ idx \in 0..(Len(block_widgets) - 1)
    /\ LET new_idx == idx + direction
           docs == [k \in DOMAIN block_widgets |->
                      IF k = idx + 1 THEN block_widgets[new_idx + 1]
                      ELSE IF k = new_idx + 1 THEN block_widgets[idx + 1]
                      ELSE block_widgets[k]]
       IN block_widgets' =
            IF lock_var \/ new_idx < 0 \/ new_idx >= Len(block_widgets) THEN block_widgets
            ELSE [k \in DOMAIN docs |-> WidgetDoc(docs[k])]
    /\ Quiet
    /\ UNCHANGED <<db, current_folder_id, view, selected_id, file_id, read_text, lock_var,
                   meta, watch_vars, export_file, disk, tmp, pc>>

\* The Lock checkbutton, then FileView._on_lock_toggled
on_lock_toggled ==
    /\ Step
    /\ view = "file"
    /\ lock_var' = ~lock_var
    /\ meta' = [meta EXCEPT !["_locked"] = lock_var']
    /\ Quiet
    /\ UNCHANGED <<db, current_folder_id, view, selected_id, file_id, read_text,
                   block_widgets, watch_vars, export_file, disk, tmp, pc>>

\* FileView._save: the Save button, or Ctrl-S, which is bound in both views
save ==
    /\ Step
    /\ IF CanSave
       THEN /\ meta' = SavedMeta
            /\ db' = SavedDb
            /\ on_db_changed(db')
            /\ last_saved_signature' =
                  <<compute_signature_from_content(db'.nodes[file_id].content[1])>>
       ELSE UNCHANGED <<db, meta, last_saved_signature, disk, tmp, pc>>
    /\ Quiet
    /\ UNCHANGED <<current_folder_id, view, selected_id, file_id, read_text, block_widgets,
                   lock_var, dirty_poll_job, autosave_job, after_jobs, export_file>>

\* data.json files left by earlier versions or edited by hand: one file in
\* QuickCopy whose "content" is what varies.
RawStore(content_raw) ==
    [quickcopy_root_id |-> 2, favorites_root_id |-> 1,
     nodes |-> <<[key |-> 1, val |-> [id |-> 1, type |-> "folder", name |-> FavoritesName,
                                      children |-> <<>>, content |-> None, target_id |-> NoId]],
                 [key |-> 2, val |-> [id |-> 2, type |-> "folder", name |-> QuickCopyName,
                                      children |-> <<3>>, content |-> None, target_id |-> NoId]],
                 [key |-> 3, val |-> [id |-> 3, type |-> "file", name |-> <<"a">>,
                                      children |-> <<>>, content |-> content_raw,
                                      target_id |-> NoId]]>>]

RawContents ==
    {None,
     [read_doc |-> blank_rich_doc, copy_docs |-> <<>>],
     [read_doc |-> [text |-> "r", tags |-> <<>>]],
     [read_text |-> "r", copy_blocks |-> <<>>],
     [read_text |-> "r", copy_blocks |-> <<"a", "b">>],
     [read_doc |-> ("_locked" :> TRUE) @@ blank_rich_doc,
      copy_docs |-> <<[text |-> "a", tags |-> <<>>]>>]}

FileInit == \E c \in RawContents : AppInit(<<RawStore(c)>>)

FileNext ==
    \/ Next
    \/ add_block
    \/ \E idx \in 0..MaxSteps : remove_block(idx)
    \/ \E idx \in 0..MaxSteps, direction \in {-1, 1} : move_block(idx, direction)
    \/ on_lock_toggled
    \/ save

SpecFile == FileInit /\ [][FileNext]_vars

\* ------------------------------------------------------ Storage.save, by step
\* The two files of the app data directory.
real_path == "data.json"

\* A save that writes in place.
in_place_tmp_path == "data.json"

\* self.path.with_suffix(".tmp")
tmp_path == "data.tmp"

ReadFile(path) == IF path = real_path THEN disk ELSE tmp

WriteFile(path, f) ==
    IF path = real_path THEN disk' = f /\ tmp' = tmp ELSE tmp' = f /\ disk' = disk

\* Storage.save up to open(tmp_path, "w"), which leaves the file empty.
BeginSave(newdb) ==
    /\ WriteFile(tmp_path, [data |-> db_to_dict(newdb), written |-> 0])
    /\ pc' = "writing"

\* A handler changes the store in memory (here: a folder is created in
\* QuickCopy) or leaves it as it is (App.on_close), and calls Storage.save.
handler_saves ==
    /\ Step
    /\ pc = "idle"
    /\ \/ UNCHANGED db
       \/ /\ FreeIds # {}
          /\ LET nid == new_id(UsedIds)
             IN db' = [db EXCEPT !.nodes =
                          AppendChild(Put(db.nodes, nid,
                                          Node(nid, "folder", <<"a">>, <<>>, None, NoId)),
                                      db.quickcopy_root_id, nid)]
    /\ BeginSave(db')
    /\ Quiet
    /\ UNCHANGED <<current_folder_id, view, selected_id, fileview_vars, export_file>>

\* json.dump writes the next piece.
write_chunk ==
    /\ pc = "writing"
    /\ ReadFile(tmp_path) # None
    /\ ~IsWhole(ReadFile(tmp_path))
    /\ WriteFile(tmp_path, [ReadFile(tmp_path) EXCEPT !.written = @ + 1])
    /\ UNCHANGED <<db, current_folder_id, view, selected_id, fileview_vars, notice,
                   export_file, id_map, pc, steps>>

\* The store in memory is put back to what data.json holds.
write_rolls_back ==
    /\ pc = "writing"
    /\ ~IsWhole(ReadFile(tmp_path))
    /\ pc' = "idle"
    /\ notice' = "Save error"
    /\ db' = IF IsWhole(disk) THEN db_from_dict(disk.data, {}) ELSE blank_database({})
    /\ UNCHANGED <<current_folder_id, view, selected_id, fileview_vars, export_file,
                   id_map, disk, tmp, steps>>

\* The write raises (the disk is full): App._on_db_changed shows the error.
write_fails ==
    /\ pc = "writing"
    /\ ~IsWhole(ReadFile(tmp_path))
    /\ pc' = "idle"
    /\ notice' = "Save error"
    /\ UNCHANGED <<db, current_folder_id, view, selected_id, fileview_vars, export_file,
                   id_map, disk, tmp, steps>>

\* ExplorerView.import_bundle on a file that cannot be opened or is not
\* JSON: open or json.load raises inside the try, the error is shown and the
\* handler returns.
import_unreadable ==
    /\ Step
    /\ pc = "idle"
    /\ view = "explorer"
    /\ notice' = "Import failed"
    /\ id_map' = <<>>
    /\ UNCHANGED <<db, current_folder_id, view, selected_id, fileview_vars, export_file,
                   disk, tmp, pc>>

\* os.replace(tmp_path, self.path)
replace ==
    /\ pc = "writing"
    /\ IsWhole(ReadFile(tmp_path))
    /\ IF tmp_path = real_path THEN UNCHANGED <<disk, tmp>>
       ELSE disk' = tmp /\ tmp' = None
    /\ pc' = "idle"
    /\ UNCHANGED <<db, current_folder_id, view, selected_id, fileview_vars, notice,
                   export_file, id_map, steps>>

\* The process dies, inside Storage.save or outside it.
crash ==
    /\ pc \in {"idle", "writing"}
    /\ pc' = "crashed"
    /\ UNCHANGED <<db, current_folder_id, view, selected_id, fileview_vars, notice,
                   export_file, id_map, disk, tmp, steps>>

\* The app is started again: Storage.load_or_create_blank.  A data.json that
\* is not whole makes json.load raise, and the app does not start.
restart ==
    /\ pc = "crashed"
    /\ IF disk = None
       THEN /\ db' = blank_database({})
            /\ BeginSave(db')
            /\ notice' = ""
       ELSE IF IsWhole(disk)
       THEN /\ db' = db_from_dict(disk.data, {})
            /\ pc' = "idle"
            /\ notice' = ""
            /\ UNCHANGED <<disk, tmp>>
       ELSE /\ notice' = "JSONDecodeError"
            /\ UNCHANGED <<db, pc, disk, tmp>>
    /\ current_folder_id' = db'.quickcopy_root_id
    /\ view' = "explorer"
    /\ selected_id' = NoId
    /\ file_id' = NoId
    /\ read_text' = blank_rich_doc
    /\ block_widgets' = <<>>
    /\ lock_var' = FALSE
    /\ meta' = InitialMeta
    /\ last_saved_signature' = None
    /\ dirty_poll_job' = NoJob
    /\ autosave_job' = NoJob
    /\ after_jobs' = {}
    /\ export_file' = export_file
    /\ id_map' = <<>>
    /\ UNCHANGED steps

\* The first start, in an empty directory or over a saved store.
SaveInit ==
    \/ /\ AppInit(<<db_to_dict(SavedStoreA)>>)
    \/ /\ db = blank_database({})
       /\ LET f == [data |-> db_to_dict(db), written |-> 0]
          IN /\ disk = IF tmp_path = real_path THEN f ELSE None
             /\ tmp = IF tmp_path = real_path THEN None ELSE f
       /\ pc = "writing"
       /\ current_folder_id = db.quickcopy_root_id
       /\ view = "explorer"
       /\ selected_id = NoId
       /\ file_id = NoId
       /\ read_text = blank_rich_doc
       /\ block_widgets = <<>>
       /\ lock_var = FALSE
       /\ meta = InitialMeta
       /\ NoWatch
       /\ notice = ""
       /\ export_file = None
       /\ id_map = <<>>
       /\ steps = 0

SaveNext ==
    \/ handler_saves
    \/ import_unreadable
    \/ write_chunk
    \/ write_fails
    \/ replace
    \/ crash
    \/ restart

SpecSave == SaveInit /\ [][SaveNext]_vars

\* ------------------------------------------------------------ the codec
\* Storage.save and Storage.load applied to stores drawn from a bounded set:
\* two roots and up to one more node of any type, children lists of up to
\* MaxChildren IDs (repeats, cycles and absent IDs included), and the file
\* contents the file view can produce.
MaxChildren == 2
CodecIds == 1..3

SampleTag == [name |-> "bold", ranges |-> <<<<0, 1>>>>, config |-> [underline |-> TRUE]]

SavedReadDoc ==
    ("_locked" :> TRUE) @@ ("_autosave" :> FALSE) @@ ("_last_saved_ts" :> now_iso)
    @@ [text |-> "r", tags |-> <<SampleTag>>]

SampleContents ==
    {BlankFileContent,
     FileContent(SavedReadDoc, <<[text |-> "a", tags |-> <<>>], [text |-> "b", tags |-> <<SampleTag>>]>>)}

ChildLists == UNION {[1..n -> CodecIds] : n \in 0..MaxChildren}

ExtraNodes ==
    {Node(3, "folder", <<"a">>, ch, None, NoId) : ch \in ChildLists}
    \cup {Node(3, "file", UntitledName, <<>>, <<c>>, NoId) : c \in SampleContents}
    \cup {Node(3, "shortcut", <<"a">>, <<>>, None, t) : t \in {NoId, 2, 3}}

CodecDbs ==
    {Database(2, 1,
              (1 :> Node(1, "folder", FavoritesName, fch, None, NoId))
              @@ (2 :> Node(2, "folder", QuickCopyName, qch, None, NoId))
              @@ extra)
       : fch \in ChildLists, qch \in ChildLists,
         extra \in {<<>>} \cup {(3 :> n) : n \in ExtraNodes}}

CodecInit ==
    /\ db \in CodecDbs
    /\ disk = None
    /\ current_folder_id = db.quickcopy_root_id
    /\ view = "explorer"
    /\ selected_id = NoId
    /\ file_id = NoId
    /\ read_text = blank_rich_doc
    /\ block_widgets = <<>>
    /\ lock_var = FALSE
    /\ meta = InitialMeta
    /\ NoWatch
    /\ notice = ""
    /\ export_file = None
    /\ id_map = <<>>
    /\ tmp = None
    /\ pc = "idle"
    /\ steps = 0

\* Storage.save, run to completion.
storage_save ==
    /\ Step
    /\ disk' = WholeFile(db_to_dict(db))
    /\ UNCHANGED <<db, current_folder_id, view, selected_id, fileview_vars, notice,
                   export_file, id_map, tmp, pc>>

\* Storage.load
storage_load ==
    /\ Step
    /\ disk # None
    /\ db' = db_from_dict(disk.data, {})
    /\ UNCHANGED <<disk, current_folder_id, view, selected_id, fileview_vars, notice,
                   export_file, id_map, tmp, pc>>

CodecNext == storage_save \/ storage_load

SpecCodec == CodecInit /\ [][CodecNext]_vars

\* ------------------------------------------------- loading old documents
\* data.json files as earlier versions of the app left them and as hand
\* edits leave them: a root folder holding a folder that holds one file.
\* What varies is how the document names its roots, the file's "content",
\* its "pinned" flag, and whether Favorites already has a shortcut to it.
RootFormats == {"current", "no_favorites", "legacy", "legacy_file_root",
                "legacy_missing_root", "no_roots", "stale_quickcopy",
                "file_quickcopy", "shared_root"}

LegacyContents ==
    RawContents \cup
    {NotDict,
     [read_text |-> "r"],
     [copy_blocks |-> <<"a">>],
     [copy_docs |-> <<[text |-> "a", tags |-> <<>>], [text |-> "b", tags |-> <<>>]>>]}

Pinned(flag) ==
    IF flag = "yes" THEN ("pinned" :> TRUE)
    ELSE IF flag = "no" THEN ("pinned" :> FALSE)
    ELSE <<>>

RawEntry(id, type, name, children, content, target_id, flag) ==
    [key |-> id,
     val |-> Pinned(flag) @@ [id |-> id, type |-> type, name |-> name, children |-> children,
                              content |-> content, target_id |-> target_id]]

RawRoots(fmt) ==
    IF fmt = "current" THEN [quickcopy_root_id |-> 2, favorites_root_id |-> 1]
    ELSE IF fmt = "no_favorites" THEN [quickcopy_root_id |-> 2]
    ELSE IF fmt = "legacy" THEN [root_id |-> 2]
    ELSE IF fmt = "legacy_file_root" THEN [root_id |-> 3]
    ELSE IF fmt = "legacy_missing_root" THEN [root_id |-> 7]
    ELSE IF fmt = "stale_quickcopy" THEN [quickcopy_root_id |-> 7, root_id |-> 2]
    ELSE IF fmt = "file_quickcopy" THEN [quickcopy_root_id |-> 3]
    ELSE IF fmt = "shared_root" THEN [quickcopy_root_id |-> 2, favorites_root_id |-> 2]
    ELSE <<>>

RawDoc(fmt, content, flag, favorited) ==
    RawRoots(fmt) @@
    [nodes |->
       (IF fmt = "current"
        THEN <<RawEntry(1, "folder", FavoritesName, IF favorited THEN <<4>> ELSE <<>>,
                        None, NoId, "absent")>>
        ELSE <<>>)
       \o <<RawEntry(2, "folder", QuickCopyName, <<5>>, None, NoId, "absent"),
            RawEntry(5, "folder", <<"a">>, <<3>>, None, NoId, "absent"),
            RawEntry(3, "file", <<"a">>, <<>>, content, NoId, flag)>>
       \o (IF fmt = "current" /\ favorited
           THEN <<RawEntry(4, "shortcut", <<"a">>, <<>>, None, 3, "absent")>>
           ELSE <<>>)]

RawDocs ==
    {RawDoc(fmt, content, flag, favorited) :
        fmt \in RootFormats, content \in LegacyContents,
        flag \in {"absent", "yes", "no"}, favorited \in BOOLEAN}

\* App.__init__ over one of these documents; then sessions save and load.
LoadInit == \E raw \in RawDocs : AppInit(<<raw>>)

SpecLoad == LoadInit /\ [][CodecNext]_vars

\* ------------------------------------------------ the life of a file view
\* Typing in the read widget (k = 0) or in copy section k.  A locked file's
\* Text widgets are disabled (_apply_lock_state_ui) and take no input.
type_text(k, t) ==
    /\ Step
    /\ view = "file"
    /\ k \in 0..Len(block_widgets)
    /\ IF lock_var THEN UNCHANGED <<read_text, block_widgets>>
       ELSE IF k = 0
       THEN read_text' = [read_text EXCEPT !.text = t] /\ UNCHANGED block_widgets
       ELSE block_widgets' = [block_widgets EXCEPT ![k].text = t] /\ UNCHANGED read_text
    /\ Quiet
    /\ UNCHANGED <<db, current_folder_id, view, selected_id, file_id, lock_var, meta,
                   watch_vars, export_file, disk, tmp, pc>>

\* FileView._toggle_tag("bold") on a selection of the read widget or of copy
\* section k: the tag is put on it, or taken off it.
toggle_tag(k) ==
    /\ Step
    /\ view = "file"
    /\ k \in 0..Len(block_widgets)
    /\ LET flip(doc) == [doc EXCEPT !.tags = IF @ = <<>> THEN <<SampleTag>> ELSE <<>>]
       IN IF lock_var THEN UNCHANGED <<read_text, block_widgets>>
          ELSE IF k = 0
          THEN read_text' = flip(read_text) /\ UNCHANGED block_widgets
          ELSE block_widgets' = [block_widgets EXCEPT ![k] = flip(@)] /\ UNCHANGED read_text
    /\ Quiet
    /\ UNCHANGED <<db, current_folder_id, view, selected_id, file_id, lock_var, meta,
                   watch_vars, export_file, disk, tmp, pc>>

\* The Autosave checkbutton, then FileView._on_autosave_toggled
on_autosave_toggled ==
    /\ Step
    /\ view = "file"
    /\ meta' = [meta EXCEPT !["_autosave"] = ~@]
    /\ SetWatch(restart_autosave_loop(Watch, file_id, meta'["_autosave"]))
    /\ Quiet
    /\ UNCHANGED <<db, current_folder_id, view, selected_id, file_id, read_text,
                   block_widgets, lock_var, last_saved_signature, export_file, disk, tmp, pc>>

\* The callback tick() of _start_dirty_poll runs: it refreshes the title and
\* schedules itself again.
dirty_tick(j) ==
    /\ Step
    /\ j \in after_jobs
    /\ j.callback = "tick"
    /\ LET w == [Watch EXCEPT !.after_jobs = @ \ {j}]
       IN IF file_id = NoId THEN SetWatch(w)
          ELSE SetWatch([w EXCEPT !.after_jobs = @ \cup {[id |-> after(w), callback |-> "tick"]},
                                  !.dirty_poll_job = after(w)])
    /\ UNCHANGED <<db, current_folder_id, view, selected_id, file_id, read_text,
                   block_widgets, lock_var, meta, last_saved_signature, notice, export_file,
                   id_map, disk, tmp, pc>>

\* The callback loop() of _restart_autosave_loop runs: _save(_autosave=True)
\* when autosave is on and something is unsaved; it schedules itself again.
autosave_loop(j) ==
    /\ Step
    /\ j \in after_jobs
    /\ j.callback = "loop"
    /\ LET w == [Watch EXCEPT !.after_jobs = @ \ {j}]
       IN IF file_id = NoId
          THEN /\ SetWatch(w)
               /\ UNCHANGED <<db, meta, last_saved_signature, disk, tmp, pc>>
          ELSE /\ IF meta["_autosave"] /\ is_dirty /\ CanSave
                  THEN /\ meta' = SavedMeta
                       /\ db' = SavedDb
                       /\ on_db_changed(db')
                       /\ last_saved_signature' =
                             <<compute_signature_from_content(db'.nodes[file_id].content[1])>>
                  ELSE UNCHANGED <<db, meta, last_saved_signature, disk, tmp, pc>>
               /\ SetWatch([w EXCEPT !.after_jobs = @ \cup {[id |-> after(w), callback |-> "loop"]},
                                     !.autosave_job = after(w)])
    /\ UNCHANGED <<current_folder_id, view, selected_id, file_id, read_text, block_widgets,
                   lock_var, notice, export_file, id_map>>

\* App.on_close (WM_DELETE_WINDOW): Storage.save(self.db), then destroy(),
\* which takes the pending after() callbacks with it.
on_close ==
    /\ Step
    /\ on_db_changed(db)
    /\ view' = "closed"
    /\ after_jobs' = {}
    /\ Quiet
    /\ UNCHANGED <<db, current_folder_id, selected_id, file_id, read_text, block_widgets,
                   lock_var, meta, last_saved_signature, dirty_poll_job, autosave_job,
                   export_file>>

\* The app is started again on the data.json the last session left.
relaunch ==
    /\ view = "closed"
    /\ IsWhole(disk)
    /\ db' = db_from_dict(disk.data, {})
    /\ current_folder_id' = db'.quickcopy_root_id
    /\ view' = "explorer"
    /\ selected_id' = NoId
    /\ file_id' = NoId
    /\ read_text' = blank_rich_doc
    /\ block_widgets' = <<>>
    /\ lock_var' = FALSE
    /\ meta' = InitialMeta
    /\ last_saved_signature' = None
    /\ dirty_poll_job' = NoJob
    /\ autosave_job' = NoJob
    /\ after_jobs' = {}
    /\ Quiet
    /\ UNCHANGED <<export_file, disk, tmp, pc, steps>>

\* data.json holds two files in QuickCopy: one whose content varies (fresh,
\* or saved locked, or saved with autosave on), one fresh.
ViewContents ==
    {[read_doc |-> blank_rich_doc, copy_docs |-> <<blank_rich_doc>>],
     [read_doc |-> ("_locked" :> TRUE) @@ ("_autosave" :> FALSE) @@ ("_last_saved_ts" :> None)
                   @@ [text |-> "r", tags |-> <<>>],
      copy_docs |-> <<[text |-> "a", tags |-> <<>>]>>],
     [read_doc |-> ("_locked" :> FALSE) @@ ("_autosave" :> TRUE) @@ ("_last_saved_ts" :> None)
                   @@ [text |-> "r", tags |-> <<>>],
      copy_docs |-> <<[text |-> "a", tags |-> <<>>]>>]}

ViewStore(content_raw) ==
    [RawStore(content_raw) EXCEPT
        !.nodes = [@ EXCEPT ![2].val.children = <<3, 4>>]
                  \o <<[key |-> 4, val |-> [id |-> 4, type |-> "file", name |-> <<"b">>,
                                            children |-> <<>>,
                                            content |-> [read_doc |-> blank_rich_doc,
                                                         copy_docs |-> <<blank_rich_doc>>],
                                            target_id |-> NoId]]>>]

ViewInit == \E c \in ViewContents : AppInit(<<ViewStore(c)>>)

TypedTexts == {"x"}

ViewNext ==
    \/ \E sel \in Ids : open_selected(sel)
    \/ Back
    \/ \E k \in 0..1, t \in TypedTexts : type_text(k, t)
    \/ \E k \in 0..1 : toggle_tag(k)
    \/ on_lock_toggled
    \/ on_autosave_toggled
    \/ save
    \/ \E j \in after_jobs : dirty_tick(j)
    \/ \E j \in after_jobs : autosave_loop(j)
    \/ on_close
    \/ relaunch

SpecView == ViewInit /\ [][ViewNext]_vars

\* ------------------------------------------- a file save that can fail
\* FileView._save with Storage.save taken step by step: the node gets the
\* content of the widgets, the write of data.tmp starts, and, the write
\* done or failed, App._on_db_changed returns and the saved signature is set.
\* No handler runs before the write has ended, so the signature is set here.
save_stepwise ==
    /\ Step
    /\ pc = "idle"
    /\ IF CanSave
       THEN /\ meta' = SavedMeta
            /\ db' = SavedDb
            /\ BeginSave(db')
            /\ last_saved_signature' =
                  <<compute_signature_from_content(db'.nodes[file_id].content[1])>>
       ELSE UNCHANGED <<db, meta, last_saved_signature, disk, tmp, pc>>
    /\ Quiet
    /\ UNCHANGED <<current_folder_id, view, selected_id, file_id, read_text, block_widgets,
                   lock_var, dirty_poll_job, autosave_job, after_jobs, export_file>>

RetryNext ==
    \/ pc = "idle" /\ \E sel \in Ids : open_selected(sel)
    \/ pc = "idle" /\ \E k \in 0..1, t \in TypedTexts : type_text(k, t)
    \/ pc = "idle" /\ on_lock_toggled
    \/ save_stepwise
    \/ write_chunk
    \/ write_fails
    \/ replace

SpecRetry == ViewInit /\ [][RetryNext]_vars

\* ------------------------------------------- bundles of another store
\* A store as it was exported: a folder in QuickCopy holds one file that is
\* not favorited.
SavedStoreEarlier ==
    Database(2, 1,
             (1 :> Node(1, "folder", FavoritesName, <<>>, None, NoId))
             @@ (2 :> Node(2, "folder", QuickCopyName, <<3>>, None, NoId))
             @@ (3 :> Node(3, "folder", <<"a">>, <<5>>, None, NoId))
             @@ (5 :> Node(5, "file", <<"a">>, <<>>, <<BlankFileContent>>, NoId)))

\* The same store later: the file was favorited (toggle_favorite_selected)
\* and its folder deleted (delete_selected), which left the shortcut.
SavedStoreLater ==
    Database(2, 1,
             (1 :> Node(1, "folder", FavoritesName, <<4>>, None, NoId))
             @@ (2 :> Node(2, "folder", QuickCopyName, <<>>, None, NoId))
             @@ (4 :> Node(4, "shortcut", <<"a">>, <<>>, None, 5)))

\* ask_open_json: the bundles the user can pick were exported by this store
\* earlier or by another store.
ReceivedBundles == {db_to_dict(SavedStoreEarlier), db_to_dict(SavedStoreA)}

receive_bundle(raw) ==
    /\ Step
    /\ view = "explorer"
    /\ export_file' = <<raw>>
    /\ Quiet
    /\ UNCHANGED <<db, current_folder_id, view, selected_id, fileview_vars, disk, tmp, pc>>

ExchangeInit ==
    \E d0 \in {None, <<db_to_dict(SavedStoreLater)>>, <<db_to_dict(SavedStoreA)>>} : AppInit(d0)

ExchangeNext ==
    \/ go_favorites
    \/ go_quickcopy
    \/ create_folder
    \/ \E raw \in ReceivedBundles : receive_bundle(raw)
    \/ export_bundle
    \/ import_bundle

SpecExchange == ExchangeInit /\ [][ExchangeNext]_vars

\* ------------------------------------------------------- subtree walks
\* bundle_io.export_bundle of a folder followed by save_bundle, as a caller
\* of the library runs them: the bundle is written, or the exception of the
\* walk or of the content export comes out.
export_subtree(folder_id) ==
    /\ Step
    /\ view = "explorer"
    /\ LET b == IF RecursionRaised(db, folder_id) THEN Raised("RecursionError")
                ELSE bundle_export(db, folder_id)
       IN IF "raised" \in DOMAIN b
          THEN notice' = b.raised /\ UNCHANGED export_file
          ELSE notice' = "" /\ export_file' = <<b>>
    /\ id_map' = <<>>
    /\ UNCHANGED <<db, current_folder_id, view, selected_id, fileview_vars, disk, tmp, pc>>

\* Documents whose children lists are not a tree: folders a and b list each
\* other; folders a and b both list folder c.
CycleDoc ==
    [quickcopy_root_id |-> 2, favorites_root_id |-> 1,
     nodes |-> <<RawEntry(1, "folder", FavoritesName, <<>>, None, NoId, "absent"),
                 RawEntry(2, "folder", QuickCopyName, <<3>>, None, NoId, "absent"),
                 RawEntry(3, "folder", <<"a">>, <<4>>, None, NoId, "absent"),
                 RawEntry(4, "folder", <<"b">>, <<3>>, None, NoId, "absent")>>]

SharedDoc ==
    [quickcopy_root_id |-> 2, favorites_root_id |-> 1,
     nodes |-> <<RawEntry(1, "folder", FavoritesName, <<>>, None, NoId, "absent"),
                 RawEntry(2, "folder", QuickCopyName, <<3, 4>>, None, NoId, "absent"),
                 RawEntry(3, "folder", <<"a">>, <<5>>, None, NoId, "absent"),
                 RawEntry(4, "folder", <<"b">>, <<5>>, None, NoId, "absent"),
                 RawEntry(5, "folder", <<"c">>, <<>>, None, NoId, "absent")>>]

WalkInit == \E raw \in {CycleDoc, SharedDoc, db_to_dict(SavedStoreNested)} : AppInit(<<raw>>)

WalkNext ==
    \/ go_favorites
    \/ go_quickcopy
    \/ \E sel \in Ids : open_selected(sel)
    \/ create_folder
    \/ \E sel \in Ids : delete_selected(sel)
    \/ \E folder_id \in DOMAIN db.nodes : export_subtree(folder_id)

SpecWalk == WalkInit /\ [][WalkNext]_vars

\* ------------------------------------------------------------ properties
Folders(d) == {i \in DOMAIN d.nodes : d.nodes[i].type = "folder"}

\* Where an ID is listed as a child: the (folder, position) pairs.
Occurrences(d, c) ==
    {<<p, k>> \in Folders(d) \X (1..MaxIds) :
        k \in DOMAIN d.nodes[p].children /\ d.nodes[p].children[k] = c}

ChildrenOf(d, S) ==
    UNION {Range(d.nodes[p].children) : p \in S \cap Folders(d)}

RECURSIVE ReachFrom(_, _, _)
ReachFrom(d, S, n) ==
    IF n = 0 \/ ChildrenOf(d, S) \subseteq S THEN S
    ELSE ReachFrom(d, S \cup ChildrenOf(d, S), n - 1)

\* The transitive descendants of a node (the node itself only on a cycle).
Descendants(d, i) == ReachFrom(d, ChildrenOf(d, {i}), MaxIds)

DanglingChildren(d) == ChildrenOf(d, Folders(d)) \ DOMAIN d.nodes

Orphans(d) ==
    {i \in DOMAIN d.nodes : ~IsRoot(d, i) /\ Parents(d, i) = {}}

ShortcutsTo(d, fid) ==
    IF IsFolder(d, d.favorites_root_id)
    THEN {k \in DOMAIN d.nodes[d.favorites_root_id].children :
             IsShortcutTo(d, d.nodes[d.favorites_root_id].children[k], fid)}
    ELSE {}

Files(d) == {i \in DOMAIN d.nodes : d.nodes[i].type = "file"}

\* C2: no node ID is listed in two folders' children or twice in one list, and
\* no folder is its own ancestor, in every reachable state.
C2_TreeInvariant ==
    /\ \A c \in Ids : Cardinality(Occurrences(db, c)) <= 1
    /\ \A f \in Folders(db) : f \notin Descendants(db, f)

\* C3: a delete_selected step on a non-root folder or file leaves the node and
\* all its descendants out of db.nodes, and leaves no folder listing a child
\* that db.nodes does not hold.
C3_DeleteLeavesNoDangling ==
    [][\A sel \in Ids :
          (/\ sel \in DOMAIN db.nodes
           /\ ~IsRoot(db, sel)
           /\ db.nodes[sel].type \in {"folder", "file"}
           /\ delete_selected(sel))
          => /\ ({sel} \cup Descendants(db, sel)) \cap DOMAIN db'.nodes = {}
             /\ DanglingChildren(db') = {}]_vars

\* C4: every node of db.nodes other than the two roots is a child of some
\* folder of db.nodes, in every reachable state.
C4_NoOrphans == Orphans(db) = {}

\* C5: the Favorites folder never lists two shortcuts with the same file as
\* their target.
C5_AtMostOneShortcut == \A f \in Files(db) : Cardinality(ShortcutsTo(db, f)) <= 1

\* C6: a favorite toggle on a live file (from the explorer or from the file
\* view) flips is_favorited, so that two toggles restore it, and the file has
\* at most one shortcut before and after.
C6_ToggleInvolution ==
    [][\A f \in Ids :
          (/\ f \in Files(db)
           /\ toggle_favorite_selected(f) \/ (fv_toggle_favorite /\ file_id = f))
          => /\ is_favorited(db', f) # is_favorited(db, f)
             /\ Cardinality(ShortcutsTo(db, f)) <= 1
             /\ Cardinality(ShortcutsTo(db', f)) <= 1]_vars

RootsAreFolders(d) ==
    /\ d.quickcopy_root_id # d.favorites_root_id
    /\ IsFolder(d, d.quickcopy_root_id)
    /\ IsFolder(d, d.favorites_root_id)

\* C7: both root IDs always resolve to two distinct folders; a rename or
\* delete whose selection is a root changes nothing in the store; no step
\* changes a root's ID or name.
C7_RootPermanence ==
    /\ []RootsAreFolders(db)
    /\ [][\A sel \in Ids :
            (IsRoot(db, sel) /\ (rename_selected(sel) \/ delete_selected(sel)))
            => (db' = db /\ disk' = disk)]_vars
    /\ [][/\ db'.quickcopy_root_id = db.quickcopy_root_id
          /\ db'.favorites_root_id = db.favorites_root_id
          /\ \A r \in {db.quickcopy_root_id, db.favorites_root_id} :
                r \in DOMAIN db'.nodes /\ db'.nodes[r].name = db.nodes[r].name]_vars

C7_RootRejected ==
    /\ notice \in {"Favorites and QuickCopy roots cannot be renamed.",
                   "Favorites and QuickCopy roots cannot be deleted."}
    /\ Cardinality(DOMAIN db.nodes) > 2

\* C1: whenever data.json holds the serialization of the store in memory,
\* deserializing it gives back that store: the same roots, the same node IDs
\* and, per node, the same type, name, children sequence, content and target.
C1_RoundTrip ==
    (disk # None /\ disk.data = db_to_dict(db)) => db_from_dict(disk.data, {}) = db

C1_SavedRichFile ==
    /\ disk # None
    /\ steps = 2
    /\ 3 \in DOMAIN db.nodes
    /\ db.nodes[3].type = "file"
    /\ Len(db.nodes[3].content[1].copy_docs) = 2
    /\ db.nodes[2].children = <<3, 3>>

\* C9: an import, by either path, leaves every node that was in the store
\* with its ID, type, name, content and target_id, and none of the IDs the
\* import hands to incoming nodes was a key of the store before.
C9_ImportNeverAliases ==
    [][id_map' # <<>> =>
         /\ Range(id_map') \cap DOMAIN db.nodes = {}
         /\ \A i \in DOMAIN db.nodes :
               /\ i \in DOMAIN db'.nodes
               /\ db'.nodes[i].id = db.nodes[i].id
               /\ db'.nodes[i].type = db.nodes[i].type
               /\ db'.nodes[i].name = db.nodes[i].name
               /\ db'.nodes[i].content = db.nodes[i].content
               /\ db'.nodes[i].target_id = db.nodes[i].target_id]_vars

\* Both paths have imported into one store: a whole-store import whose keys
\* all collided, and an import into a folder that stopped at a file entry.
C9_BothPathsImported ==
    /\ notice = "ImportError"
    /\ id_map # <<>>
    /\ Cardinality(DOMAIN db.nodes) >= 6
    /\ \E i \in DOMAIN db.nodes : i # db.favorites_root_id /\ db.nodes[i].name = FavoritesName

CopyDocsNonEmpty(d) ==
    \A i \in DOMAIN d.nodes :
        d.nodes[i].type = "file" =>
            d.nodes[i].content # None /\ Len(d.nodes[i].content[1].copy_docs) >= 1

\* C8: every file node of the store has at least one copy document, whatever
\* was loaded and whatever the file view did; an open file shows at least one
\* copy section; and Remove on the only section changes nothing (it is
\* answered with the notice unless the file is locked).
C8_CopyDocsNeverEmpty ==
    /\ [](CopyDocsNonEmpty(db) /\ (view = "file" => Len(block_widgets) >= 1))
    /\ [][(Len(block_widgets) = 1 /\ \E idx \in 0..MaxSteps : remove_block(idx))
            => /\ block_widgets' = block_widgets
               /\ db' = db
               /\ (~lock_var => notice' = "You must keep at least one copy section.")]_vars

\* Remove has just been refused on the only section left after an earlier
\* removal, in a file loaded from the old content format.
C8_LastSectionKept ==
    /\ notice = "You must keep at least one copy section."
    /\ view = "file"
    /\ file_id = 3
    /\ block_widgets = <<[text |-> "b", tags |-> <<>>]>>

\* C10: data.json is at every moment absent (before the first save) or a
\* whole serialization, and a step changes it only by putting in its place
\* the whole serialization of the store being saved: a crash or a failed
\* write at any point of Storage.save leaves the previous contents.
C10_CrashAtomicSave ==
    /\ [](disk # None => IsWhole(disk))
    /\ [][disk' = disk \/ disk' = WholeFile(db_to_dict(db'))]_vars

\* The process died in the middle of writing a changed store, and the app
\* started again from the previous data.json, the half-written file beside it.
C10_RestartedAfterCrash ==
    /\ pc = "idle"
    /\ steps >= 1
    /\ tmp # None
    /\ ~IsWhole(tmp)
    /\ tmp.written >= 1
    /\ disk # None
    /\ tmp.data # disk.data
    /\ db = db_from_dict(disk.data, {})
    /\ notice = ""

\* What a confirmed create leaves: one new node, listed last in F's children,
\* listed nowhere else, and F's earlier children as they were.
CreatedIn(F, type) ==
    \E nid \in DOMAIN db'.nodes \ DOMAIN db.nodes :
        /\ DOMAIN db'.nodes = DOMAIN db.nodes \cup {nid}
        /\ db'.nodes[F].children = Append(db.nodes[F].children, nid)
        /\ Occurrences(db', nid) = {<<F, Len(db'.nodes[F].children)>>}
        /\ db'.nodes[nid].id = nid
        /\ db'.nodes[nid].type = type
        /\ type = "file" =>
              db'.nodes[nid].content = <<FileContent(blank_rich_doc, <<blank_rich_doc>>)>>

\* C11: while the current folder F is a folder, a create_folder or create_file
\* step confirmed with a name adds one node whose ID is the last of F's
\* children, is in db.nodes and is listed by no other folder (a new file with
\* a blank read_doc and one blank copy document); a cancelled prompt leaves
\* the store as it was.
C11_CreatePostconditions ==
    [][IsFolder(db, current_folder_id) =>
         /\ \A name \in CreateInputs :
               /\ CreateNode("folder", None, <<name>>) => CreatedIn(current_folder_id, "folder")
               /\ CreateNode("file", <<BlankFileContent>>, <<name>>)
                     => CreatedIn(current_folder_id, "file")
         /\ (CreateNode("folder", None, None) \/ CreateNode("file", <<BlankFileContent>>, None))
               => db' = db /\ disk' = disk]_vars

\* A file was created in the inner folder of the saved store, after the file
\* it held.
C11_FileCreatedInInnerFolder ==
    /\ current_folder_id = 4
    /\ IsFolder(db, 4)
    /\ Len(db.nodes[4].children) = 2
    /\ db.nodes[4].children[1] = 5
    /\ db.nodes[4].children[2] \in DOMAIN db.nodes
    /\ db.nodes[db.nodes[4].children[2]].type = "file"

\* C12: a delete_selected step that deletes the folder on display leaves
\* current_folder_id at a folder that listed it, or at the QuickCopy root
\* when no folder listed it.
C12_CurrentFolderRetarget ==
    [][\A sel \in Ids :
          (/\ delete_selected(sel)
           /\ sel = current_folder_id
           /\ IsFolder(db, sel)
           /\ sel \notin DOMAIN db'.nodes)
          => LET listing == {p \in Folders(db) : sel \in Range(db.nodes[p].children)}
             IN IF listing # {}
                THEN current_folder_id' \in listing
                ELSE current_folder_id' = db.quickcopy_root_id]_vars

\* The folder on display, created inside the saved folder, has been deleted:
\* the saved folder is on display and lists only its file again.
C12_BackInParent ==
    /\ steps = 4
    /\ view = "explorer"
    /\ current_folder_id = 3
    /\ IsFolder(db, 3)
    /\ db.nodes[3].children = <<4>>
    /\ DOMAIN db.nodes = 1..5

\* The file entries of a raw document: <<node ID, raw content>>.
RawFiles(data) ==
    {<<Get(e.val, "id", e.key), OrElse(Get(e.val, "content", None), EmptyDict)>> :
        e \in {x \in Range(Get(data, "nodes", <<>>)) :
                 IsDict(x.val) /\ Get(x.val, "type", "folder") = "file"}}

\* The store in memory is what loading data.json gives.
Loaded == disk # None /\ db = db_from_dict(disk.data, {})

\* C13: after a load, a file whose raw content names neither read_doc nor
\* copy_docs has read_doc = {text: read_text or "", tags: []} and one untagged
\* copy document per copy_blocks string, in order, or one blank document when
\* copy_blocks is absent or empty; a file whose raw content is in the new
\* format with copy_docs absent or empty has exactly one blank copy document.
C13_LegacyContentUpgrade ==
    Loaded =>
      \A f \in RawFiles(disk.data) :
         LET c == f[2]
             got == db.nodes[f[1]].content[1]
             blocks == Get(c, "copy_blocks", <<>>)
         IN IF ~IsDict(c) THEN got = FileContent(blank_rich_doc, <<blank_rich_doc>>)
            ELSE IF "read_doc" \in DOMAIN c \/ "copy_docs" \in DOMAIN c
            THEN Get(c, "copy_docs", <<>>) = <<>> => got.copy_docs = <<blank_rich_doc>>
            ELSE /\ got.read_doc = [text |-> Get(c, "read_text", ""), tags |-> <<>>]
                 /\ IF blocks = <<>> THEN got.copy_docs = <<blank_rich_doc>>
                    ELSE /\ Len(got.copy_docs) = Len(blocks)
                         /\ \A k \in DOMAIN blocks :
                               got.copy_docs[k] = [text |-> blocks[k], tags |-> <<>>]

\* A document in the old root_id format whose file has read_text and two
\* copy_blocks has been loaded.
C13_LegacyFileLoaded ==
    /\ Loaded
    /\ "root_id" \in DOMAIN disk.data
    /\ \E f \in RawFiles(disk.data) :
          /\ "copy_blocks" \in DOMAIN f[2]
          /\ Len(f[2].copy_blocks) = 2
          /\ Len(db.nodes[f[1]].content[1].copy_docs) = 2
          /\ db.nodes[f[1]].content[1].read_doc.text = "r"

\* The node a rename of the selection `sel` acts on: the target of a shortcut
\* whose target is live, the selected node otherwise.
RenameTarget(sel) ==
    IF db.nodes[sel].type = "shortcut" /\ db.nodes[sel].target_id \in DOMAIN db.nodes
    THEN db.nodes[sel].target_id ELSE sel

FavoriteNamesInSync(d) ==
    IsFolder(d, d.favorites_root_id) =>
       \A k \in Range(d.nodes[d.favorites_root_id].children) :
          (/\ k \in DOMAIN d.nodes
           /\ d.nodes[k].type = "shortcut"
           /\ d.nodes[k].target_id \in DOMAIN d.nodes)
          => d.nodes[k].name = d.nodes[d.nodes[k].target_id].name

\* C14: after a confirmed rename of a file, selected directly or through a
\* shortcut, every shortcut in Favorites that targets the file carries the
\* file's new name; and in every state reachable by create, rename, delete and
\* toggle favorite each Favorites shortcut with a live target has the name of
\* its target.
C14_ShortcutNamesInSync ==
    /\ [](FavoriteNamesInSync(db))
    /\ [][\A sel \in Ids :
            (/\ rename_selected(sel)
             /\ ~IsRoot(db, sel)
             /\ db.nodes[RenameTarget(sel)].type = "file"
             /\ db'.nodes[RenameTarget(sel)].name # db.nodes[RenameTarget(sel)].name)
            => \A k \in Range(db'.nodes[db'.favorites_root_id].children) :
                  IsShortcutTo(db', k, RenameTarget(sel))
                  => db'.nodes[k].name = db'.nodes[RenameTarget(sel)].name]_vars

C14_RenamedThroughShortcut ==
    /\ 5 \in DOMAIN db.nodes /\ 6 \in DOMAIN db.nodes
    /\ db.nodes[5].type = "file" /\ db.nodes[5].name = <<"b">>
    /\ IsShortcutTo(db, 6, 5) /\ db.nodes[6].name = <<"b">>
    /\ 6 \in Range(db.nodes[db.favorites_root_id].children)

\* C15: in every state reachable by navigation, create folder, create file,
\* rename, delete and toggle favorite, every child of the Favorites root is a
\* shortcut node.
C15_FavoritesHoldsShortcuts ==
    IsFolder(db, db.favorites_root_id) =>
       \A k \in Range(db.nodes[db.favorites_root_id].children) :
          k \in DOMAIN db.nodes => db.nodes[k].type = "shortcut"

\* C16: create_folder and create_file leave the store as it was whenever the
\* current folder ID does not resolve to a folder node of db.nodes, whether it
\* is absent from the mapping or resolves to a node that is not a folder.
C16_CreateNeedsFolder ==
    [][((create_folder \/ create_file) /\ ~IsFolder(db, current_folder_id))
       => db' = db]_vars

\* The IDs of the file entries of a raw document that carry pinned: true.
PinnedFiles(data) ==
    {Get(e.val, "id", e.key) :
        e \in {x \in Range(Get(data, "nodes", <<>>)) :
                 /\ IsDict(x.val)
                 /\ Get(x.val, "type", "folder") = "file"
                 /\ Get(x.val, "pinned", FALSE) = TRUE}}

\* C17: after a load of a raw document, in the current format or in the old
\* root_id format, every file entry carrying pinned: true is the target of
\* exactly one shortcut among the children of Favorites, including an entry
\* that already had a shortcut.
C17_PinnedMigration ==
    (Loaded /\ {"root_id", "quickcopy_root_id"} \cap DOMAIN disk.data # {})
    => \A f \in PinnedFiles(disk.data) : Cardinality(ShortcutsTo(db, f)) = 1

\* The IDs under which the dict entries of a raw document are parsed.
RawIds(data) ==
    {Get(e.val, "id", e.key) : e \in {x \in Range(Get(data, "nodes", <<>>)) : IsDict(x.val)}}

\* The raw document names no quickcopy_root_id that resolves in its nodes.
NoQuickCopyRoot(data) ==
    Get(data, "quickcopy_root_id", NoId) \notin RawIds(data)

C19_FullRemap ==
    \A old \in DOMAIN id_map : id_map[old] # old

\* C20: a whole-store import lists each child of the incoming Favorites
\* folder, under its resulting ID, exactly once among the children of the
\* store's own Favorites; the incoming Favorites folder is no folder's child;
\* and the children Favorites had before keep their relative order.
C20_ImportMergesFavorites ==
    [][import_bundle =>
         LET incoming == db_from_dict(export_file[1], UsedIds)
             fav_old == incoming.favorites_root_id
             my == db.favorites_root_id
             mine == db'.nodes[my].children
         IN /\ fav_old \in DOMAIN id_map'
            /\ \A c \in Range(incoming.nodes[fav_old].children) \cap DOMAIN id_map' :
                  Cardinality({k \in DOMAIN mine : mine[k] = id_map'[c]}) = 1
            /\ Occurrences(db', id_map'[fav_old]) = {}
            /\ SelectSeq(mine, LAMBDA c : c \in Range(db.nodes[my].children))
                  = db.nodes[my].children]_vars

\* A whole-store import has brought a second favorited file: Favorites lists
\* its own shortcut first and the imported one after it.
C20_FavoritesMerged ==
    /\ id_map # <<>>
    /\ \E a, b \in DOMAIN db.nodes :
          /\ a # b
          /\ db.nodes[db.favorites_root_id].children = <<a, b>>
          /\ db.nodes[a].type = "shortcut" /\ db.nodes[b].type = "shortcut"
          /\ b \in Range(id_map)
          /\ db.nodes[a].target_id # db.nodes[b].target_id
          /\ db.nodes[b].target_id \in Range(id_map)

\* C21: for every store and every rootId it holds, export_bundle returns a
\* bundle whose bundle_root_id is rootId and whose nodes are exactly rootId and
\* the nodes reachable from it through folders' children, also when the
\* subtree holds file nodes with content.
C21_ExportCollectsSubtree ==
    \A rootId \in DOMAIN db.nodes :
       LET b == bundle_export(db, rootId)
       IN /\ "bundle_root_id" \in DOMAIN b
          /\ b.bundle_root_id = rootId
          /\ {b.nodes[k].key : k \in DOMAIN b.nodes}
                = ({rootId} \cup Descendants(db, rootId)) \cap DOMAIN db.nodes

\* A list of references rewritten through a remap table: those the table
\* does not know are dropped, the others keep their order.
Rewritten(m, refs) ==
    LET known == SelectSeq(refs, LAMBDA c : c \in DOMAIN m)
    IN [k \in DOMAIN known |-> m[known[k]]]

RewrittenTarget(m, ref) == IF ref \in DOMAIN m THEN m[ref] ELSE NoId

\* C22: on an import, by either path, each imported folder's children are
\* the remapped IDs of its original children in the same order, each imported
\* shortcut's target_id is the remapped ID of its original target, and a
\* child or target the incoming data does not hold is dropped.
C22_ReferencesRewritten ==
    /\ [][import_bundle =>
            LET incoming == db_from_dict(export_file[1], UsedIds)
            IN \A old \in DOMAIN incoming.nodes :
                  LET n == incoming.nodes[old]
                      got == db'.nodes[id_map'[old]]
                  IN /\ n.type = "folder" => got.children = Rewritten(id_map', n.children)
                     /\ n.type = "shortcut"
                           => got.target_id = RewrittenTarget(id_map', n.target_id)]_vars
    /\ [][\A bundle \in BundleInputs, target \in BundleTargets :
            (import_bundle_into_folder(bundle, target) /\ id_map' # <<>>) =>
               \A k \in DOMAIN bundle.nodes :
                  LET d == bundle.nodes[k].val
                      nid == id_map'[bundle.nodes[k].key]
                  IN nid \in DOMAIN db'.nodes =>
                       /\ Get(d, "type", "folder") = "folder"
                             => db'.nodes[nid].children
                                   = Rewritten(id_map', Get(d, "children", <<>>))
                       /\ Get(d, "type", "folder") = "shortcut"
                             => db'.nodes[nid].target_id
                                   = RewrittenTarget(id_map', Get(d, "target_id", NoId))]_vars

\* C23: import_bundle_into_folder answers with a failure and leaves db as it
\* was when the target is absent from db.nodes or is not a folder, when the
\* bundle has no nodes or empty nodes, and when bundle_root_id is missing or is
\* no key of the bundle's nodes.
C23_ImportIntoFolderFailsClean ==
    [][\A bundle \in BundleInputs, target \in BundleTargets :
          (/\ import_bundle_into_folder(bundle, target)
           /\ \/ target \notin DOMAIN db.nodes
              \/ db.nodes[target].type # "folder"
              \/ "nodes" \notin DOMAIN bundle
              \/ bundle.nodes = <<>>
              \/ "bundle_root_id" \notin DOMAIN bundle
              \/ \A k \in DOMAIN bundle.nodes : bundle.nodes[k].key # bundle.bundle_root_id)
          => /\ db' = db
             /\ notice' \in {"Target folder is invalid.", "Bundle is missing required data."}]_vars

\* An import into a file, of a bundle that has all it needs, was refused.
C23_FileTargetRefused ==
    /\ notice = "Target folder is invalid."
    /\ Files(db) # {}
    /\ steps > 0

\* A shortcut whose target_id is absent, is no key of db.nodes, or is a node
\* that is not a file.
IsDangling(d, i) ==
    /\ d.nodes[i].type = "shortcut"
    /\ \/ d.nodes[i].target_id = NoId
       \/ d.nodes[i].target_id \notin DOMAIN d.nodes
       \/ d.nodes[d.nodes[i].target_id].type # "file"

\* C24: opening a dangling shortcut reports an error and leaves the store, the
\* current folder and the view (the explorer) as they were; no file is opened.
C24_DanglingShortcutRefused ==
    [][\A sel \in Ids :
          (open_selected(sel) /\ IsDangling(db, sel))
          => /\ notice' = "Missing target"
             /\ db' = db
             /\ current_folder_id' = current_folder_id
             /\ view' = "explorer" /\ view = "explorer"
             /\ UNCHANGED fileview_vars]_vars

\* A favorite was refused in Favorites after the file behind the only sound
\* shortcut was deleted: every shortcut left leads nowhere, in each of the
\* three ways.
C24_DanglingShortcutOpened ==
    /\ notice = "Missing target"
    /\ view = "explorer"
    /\ current_folder_id = db.favorites_root_id
    /\ Range(db.nodes[db.favorites_root_id].children) = {5, 6, 7}
    /\ \A i \in {5, 6, 7} : i \in DOMAIN db.nodes /\ IsDangling(db, i)
    /\ db.nodes[5].target_id = NoId
    /\ db.nodes[6].target_id \notin DOMAIN db.nodes
    /\ db.nodes[7].target_id \in DOMAIN db.nodes
\* ---- C25 ----
\* The file view is being left: Back, opening a file or a shortcut to one
\* on top of the open one, or closing the window.
LeavesFile ==
    \/ Back
    \/ \E fid \in {file_id'}, sel \in {selected_id'} : \E res \in PromptAnswers : open_file(fid, sel, res)
    \/ on_close

C25_PromptOnLeave ==
    [][(view = "file" /\ is_dirty /\ LeavesFile) => notice' = "Unsaved changes"]_vars

C25_CancelKeeps ==
    [][(view = "file" /\ is_dirty
           /\ (\/ BackAnswered("cancel")
               \/ \E fid \in {file_id'}, sel \in {selected_id'} : open_file(fid, sel, "cancel")))
          => UNCHANGED <<db, view, file_id, read_text, block_widgets, lock_var, meta,
                         watch_vars, disk>>]_vars

C25_SaveBeforeLeaving ==
    [][(view = "file" /\ is_dirty /\ CanSave
           /\ (\/ BackAnswered("yes")
               \/ \E fid \in {file_id'}, sel \in {selected_id'} : open_file(fid, sel, "yes")))
          => /\ file_id \in DOMAIN db'.nodes
             /\ LET stored == db'.nodes[file_id].content[1]
                IN /\ stored.read_doc.text = read_text.text
                   /\ stored.read_doc.tags = read_text.tags
                   /\ stored.copy_docs = block_widgets
             /\ IsWhole(disk') /\ disk'.data = db_to_dict(db')]_vars

\* C25: whenever the open file view is left while it is dirty (Back, another
\* file opened, the window closed) the user is asked to save, discard or
\* cancel first; cancel leaves the view on the same file with its edits, its
\* timers and the store as they were; save writes the edits to the file node
\* before the view is left.
C25_DirtyCloseAsks ==
    /\ C25_PromptOnLeave
    /\ C25_CancelKeeps
    /\ C25_SaveBeforeLeaving

\* ---- C26 ----
\* C26: a failed Storage.save leaves db.nodes and both root ids as the
\* handler made them, a failed read of the import file leaves them as they
\* were and adds no node; after either failure the program is idle in the
\* same view, and any save that completes puts the store in memory on the
\* disk.
C26_FailureKeepsMemory ==
    /\ [][((pc = "writing" /\ pc' = "idle" /\ notice' = "Save error")
             \/ (pc = "idle" /\ steps' # steps /\ notice' = "Import failed"))
            => /\ db'.nodes = db.nodes
               /\ db'.quickcopy_root_id = db.quickcopy_root_id
               /\ db'.favorites_root_id = db.favorites_root_id
               /\ pc' = "idle"
               /\ view' = view]_vars
    /\ [][(pc = "writing" /\ pc' = "idle" /\ notice' # "Save error")
            => IsWhole(disk') /\ disk'.data = db_to_dict(db')]_vars

\* A save failed after the handler had created a folder: the folder is in
\* memory and not in data.json.
C26_SaveFailedMutationKept ==
    /\ notice = "Save error"
    /\ pc = "idle"
    /\ Cardinality(DOMAIN db.nodes) > 2
    /\ disk # None
    /\ IsWhole(disk)
    /\ disk.data # db_to_dict(db)

\* ---- C27 ----
\* The lock flag, the autosave flag and the last-saved timestamp that the
\* store holds for file f (False, False, None where content holds none).
StoredMeta(d, f) ==
    LET c == d.nodes[f].content
        doc == IF c = None THEN blank_rich_doc ELSE c[1].read_doc
        at(key, default) == IF key \in DOMAIN doc THEN doc[key] ELSE default
    IN <<at("_locked", FALSE) = TRUE, at("_autosave", FALSE) = TRUE, at("_last_saved_ts", None)>>


\* C27: typing and formatting leave the lock and autosave flags alone; a
\* save stores the flags of the view and the time of the save; closing
\* writes them to data.json, the next start reads the same three values
\* back, and opening the file shows them.
C27_MetaRoundTrip ==
    /\ [][((\E k \in 0..Len(block_widgets) : \E t \in TypedTexts : type_text(k, t))
             \/ (\E k \in 0..Len(block_widgets) : toggle_tag(k)))
            => (meta' = meta /\ lock_var' = lock_var
                  /\ StoredMeta(db', file_id) = StoredMeta(db, file_id))]_vars
    /\ [][(view = "file" /\ view' = "file" /\ file_id' = file_id /\ CanSave
             /\ db'.nodes[file_id].content # db.nodes[file_id].content)
            => StoredMeta(db', file_id) = <<meta["_locked"], meta["_autosave"], now_iso>>]_vars
    /\ [][(view # "closed" /\ view' = "closed")
            => /\ IsWhole(disk') /\ disk'.data = db_to_dict(db)
               /\ db' = db]_vars
    /\ [][(view = "closed" /\ view' = "explorer")
            => /\ Files(db') = Files(db)
               /\ \A f \in Files(db) : StoredMeta(db', f) = StoredMeta(db, f)]_vars
    /\ [][(view = "explorer" /\ file_id = NoId /\ view' = "file" /\ file_id' \in Files(db))
            => /\ <<meta'["_locked"], meta'["_autosave"], meta'["_last_saved_ts"]>>
                     = StoredMeta(db, file_id')
               /\ lock_var' = meta'["_locked"]]_vars

\* A locked file that was saved is open again, clean, showing the lock and
\* the time of the save.
C27_SavedMetaShown ==
    /\ view = "file"
    /\ steps = MaxSteps
    /\ file_id \in Files(db)
    /\ ~is_dirty
    /\ meta["_locked"]
    /\ lock_var
    /\ meta["_last_saved_ts"] = now_iso
    /\ StoredMeta(db, file_id) = <<TRUE, FALSE, now_iso>>

\* ---- C28 ----
\* C28: after delete_selected on a file, no shortcut that targets the file
\* is left, neither among the children of Favorites nor in db.nodes.
C28_DeleteRemovesFavorite ==
    [][\A sel \in Ids :
          (sel \in DOMAIN db.nodes /\ db.nodes[sel].type = "file" /\ delete_selected(sel))
             => /\ \A i \in DOMAIN db'.nodes :
                      ~(db'.nodes[i].type = "shortcut" /\ db'.nodes[i].target_id = sel)
                /\ \A k \in DOMAIN db'.nodes[db'.favorites_root_id].children :
                      ~IsShortcutTo(db', db'.nodes[db'.favorites_root_id].children[k], sel)]_vars

\* ---- C29 ----
\* The pending after() jobs that run the given callback.
Pending(callback) == {j \in after_jobs : j.callback = callback}

\* C29: at every point at most one dirty-poll job and at most one autosave
\* job is pending, and it is the one whose handle the view holds; a file
\* that is opened leaves only the jobs scheduled for it pending (one
\* dirty-poll job, and one autosave job when autosave is on); after Back
\* nothing is pending.
C29_OneJobEach ==
    /\ [](/\ Cardinality(Pending("tick")) <= 1
          /\ Cardinality(Pending("loop")) <= 1
          /\ \A j \in Pending("tick") : j.id = dirty_poll_job
          /\ \A j \in Pending("loop") : j.id = autosave_job)
    /\ [][(\E fid \in {file_id'}, sel \in {selected_id'} : \E res \in PromptAnswers \ {"cancel"} :
               open_file(fid, sel, res))
            => /\ Cardinality(Pending("tick")') = 1
               /\ Cardinality(Pending("loop")') = (IF meta'["_autosave"] THEN 1 ELSE 0)]_vars
    /\ [][(view = "file" /\ view' = "explorer") => after_jobs' = {}]_vars

\* A file with autosave on has been opened over an open, edited file (the
\* question was answered with save or discard): one dirty-poll job and one
\* autosave job are pending.
C29_ReopenedWithAutosave ==
    /\ view = "file"
    /\ notice = "Unsaved changes"
    /\ ~is_dirty
    /\ meta["_autosave"]
    /\ Cardinality(Pending("tick")) = 1
    /\ Cardinality(Pending("loop")) = 1
    /\ dirty_poll_job # NoJob
    /\ autosave_job # NoJob
    /\ dirty_poll_job # autosave_job

\* ---- C30 ----
\* C30: in every state current_folder_id is the ID of a folder that
\* db.nodes holds.
C30_CurrentFolderLive == IsFolder(db, current_folder_id)

\* ---- C31 ----
\* C31: in every state every shortcut among the children of Favorites has a
\* target_id that is the ID of a file node in db.nodes.
C31_NoDanglingFavorites ==
    IsFolder(db, db.favorites_root_id) =>
       \A k \in DOMAIN db.nodes[db.favorites_root_id].children :
          LET c == db.nodes[db.favorites_root_id].children[k]
          IN (c \in DOMAIN db.nodes /\ db.nodes[c].type = "shortcut")
                => /\ db.nodes[c].target_id \in DOMAIN db.nodes
                   /\ db.nodes[db.nodes[c].target_id].type = "file"

\* ---- C32 ----
\* C32: the store that db_from_dict returns for a document has a
\* quickcopy_root_id and a favorites_root_id that are the IDs of two
\* different folder nodes of its nodes.
C32_LoadedRootsAreFolders == Loaded => RootsAreFolders(db)

\* ---- C33 ----
\* No ID occurs twice in the sequence.
Once(ids) == \A i, j \in DOMAIN ids : i # j => ids[i] # ids[j]

\* C33: on every store that a load returns, the walk of _collect_subtree
\* ends and lists each node once, and the walk of _delete_subtree ends with
\* the deleted node gone.
C33_WalksTerminate ==
    /\ [][\A f \in DOMAIN db.nodes :
            export_subtree(f) => /\ notice' # "RecursionError"
                                 /\ Once(collect_subtree(db, f, MaxDepth))]_vars
    /\ [][\A sel \in DOMAIN db.nodes :
            (~IsRoot(db, sel) /\ delete_selected(sel))
               => (notice' # "RecursionError" /\ sel \notin DOMAIN db'.nodes)]_vars

\* ---- C34 ----
\* The explorer is shown and the file view behind it still holds edits that
\* were not saved: the user answered Discard when leaving.
Discarded == view = "explorer" /\ file_id # NoId /\ is_dirty

\* C34: once edits were discarded on Back, no step taken from the explorer
\* writes them into the file node (nor, through it, to the disk), and no
\* step asks about them again.
C34_DiscardedStaysDiscarded ==
    [][Discarded =>
          /\ (file_id \in DOMAIN db.nodes /\ file_id \in DOMAIN db'.nodes)
                => db'.nodes[file_id].content = db.nodes[file_id].content
          /\ notice' # "Unsaved changes"]_vars

\* ---- C35 ----
\* The texts and tags of file f in memory are not those data.json holds.
DiskLacksEdits(d, dsk, f) ==
    /\ IsWhole(dsk)
    /\ f \in DOMAIN d.nodes /\ d.nodes[f].type = "file"
    /\ LET stored == db_from_dict(dsk.data, {})
           mine == compute_signature_from_content(d.nodes[f].content[1])
       IN \/ f \notin DOMAIN stored.nodes
          \/ stored.nodes[f].type # "file"
          \/ LET theirs == compute_signature_from_content(stored.nodes[f].content[1])
             IN <<mine.read_text, mine.read_tags, mine.copy>> #
                <<theirs.read_text, theirs.read_tags, theirs.copy>>

\* C35: right after a file is opened, and right after a save whose write
\* reached data.json, the view reports no unsaved changes; when the write of
\* a save fails and data.json does not hold the store in memory, the view
\* still reports unsaved changes.
C35_DirtyTracksDisk ==
    /\ [][(\E fid \in {file_id'}, sel \in {selected_id'} :
             \E res \in PromptAnswers \ {"cancel"} : open_file(fid, sel, res))
            => ~is_dirty']_vars
    /\ [][(view = "file" /\ pc = "writing" /\ pc' = "idle" /\ notice' # "Save error")
            => ~is_dirty']_vars
    /\ [][(view = "file" /\ pc = "writing" /\ pc' = "idle" /\ notice' = "Save error"
             /\ DiskLacksEdits(db', disk', file_id'))
            => is_dirty']_vars

\* ---- C36 ----
\* C36: an import into a folder is all or nothing: either it reports
\* success, every node of the bundle is in the store under its new ID and the
\* new ID of the bundle's root was appended once to the target folder's
\* children, or the nodes of the store and every children list are unchanged.
C36_ImportAllOrNothing ==
    [][\A bundle \in BundleInputs, target \in BundleTargets :
         import_bundle_into_folder(bundle, target) =>
            \/ /\ notice' = "Imported."
               /\ \A k \in DOMAIN bundle.nodes :
                     id_map'[bundle.nodes[k].key] \in DOMAIN db'.nodes \ DOMAIN db.nodes
               /\ db'.nodes[target].children =
                     Append(db.nodes[target].children, id_map'[bundle.bundle_root_id])
            \/ db'.nodes = db.nodes]_vars

\* ---- C37 ----
\* C37: a whole-store import adds to the attach folder, once, a copy of the
\* QuickCopy tree of the exported store: each copied node has the name, the
\* type, the content and, in the same order, the copied children of its
\* original, and a copied file is favorited in the receiving store exactly
\* when its original was favorited in the exported store.
C37_ImportCopiesTree ==
    [][import_bundle =>
         LET incoming == db_from_dict(export_file[1], UsedIds)
             attach == IF IsFolder(db, current_folder_id)
                       THEN current_folder_id ELSE db.quickcopy_root_id
             root == incoming.quickcopy_root_id
             tree == {root} \cup Descendants(incoming, root)
         IN /\ Cardinality({k \in DOMAIN db'.nodes[attach].children :
                              db'.nodes[attach].children[k] = id_map'[root]}) = 1
            /\ id_map'[root] \notin Range(db.nodes[attach].children)
            /\ \A old \in tree \cap DOMAIN incoming.nodes :
                  LET n == incoming.nodes[old]
                      got == db'.nodes[id_map'[old]]
                  IN /\ got.name = n.name
                     /\ got.type = n.type
                     /\ got.content = n.content
                     /\ n.type = "folder" => got.children = Rewritten(id_map', n.children)
                     /\ n.type = "file"
                           => (is_favorited(db', id_map'[old]) <=> is_favorited(incoming, old))]_vars

\* ---- C38 ----
\* The sections with the two at positions i and j (from 1) exchanged.
Swapped(widgets, i, j) ==
    [k \in DOMAIN widgets |->
       IF k = i THEN widgets[j] ELSE IF k = j THEN widgets[i] ELSE widgets[k]]

\* C38: while the lock is set, adding, removing and moving a section leave
\* the copy sections as they are; while it is not set, moving a section
\* towards a neighbour that exists exchanges the two and nothing else, and
\* towards one that does not exist changes nothing.
C38_LockIsWriteBarrier ==
    /\ [][(lock_var /\ (\/ add_block
                        \/ \E idx \in 0..MaxSteps : remove_block(idx)
                        \/ \E idx \in 0..MaxSteps, direction \in {-1, 1} :
                              move_block(idx, direction)))
            => block_widgets' = block_widgets]_vars
    /\ [][\A idx \in 0..MaxSteps, direction \in {-1, 1} :
            (~lock_var /\ move_block(idx, direction)) =>
               block_widgets' =
                  IF idx + direction \in 0..(Len(block_widgets) - 1)
                  THEN Swapped(block_widgets, idx + 1, idx + direction + 1)
                  ELSE block_widgets]_vars

C38_MovedThenLocked ==
    /\ view = "file"
    /\ lock_var
    /\ Len(block_widgets) = 2
    /\ block_widgets[1].text = "b"
    /\ block_widgets[2].text = "a"

====
